---------------------------- MODULE Spec2Model ----------------------------
(***************************************************************************)
(* Local authentication core of open-gerege (backend/internal/service):    *)
(* AuthService (auth_service.go) and RegistrationService                   *)
(* (registration_service.go).                                              *)
(*                                                                         *)
(* A handler is a sequence of store calls.  Each store call is one atomic  *)
(* step of the process running the handler; the local computation between  *)
(* two store calls is folded into the step of the call that follows it,    *)
(* except password verification (Argon2id, slow), which is a step of its   *)
(* own.  Writes to the append-only tables login_history and                *)
(* security_audit_trail are folded into the step that precedes them: no    *)
(* handler reads those tables back.  Of each table the model keeps the     *)
(* rows that each request in progress has appended.                        *)
(*                                                                         *)
(* Time is a counter of ticks; durations are given in ticks.               *)
(***************************************************************************)
EXTENDS Integers, Sequences, FiniteSets, TLC

\* ------------------------------------------------------------------ bounds
MaxTime == 2
\* sessions and MFA pending tokens made in a run
MaxSessions == 2
MaxMFATokens == 2
\* email-verification and password-reset tokens issued in a run
MaxEmailTokens == 2
MaxResetTokens == 2
\* TOTP secrets generated in a run
MaxSecrets == 2
\* batches of backup codes generated in a run
MaxBatches == 2
\* password_history rows written in a run
MaxHistory == 3
\* UnlockAccount calls made in a run
MaxUnlocks == 1

\* ------------------------------------------------------- program constants
LockoutThreshold == 5
PasswordMinLength == 8
BackupCodeCount == 10
PasswordHistoryCount == 5
\* durations, in ticks
LockoutDuration == 1
MFATokenTTL == 1
SessionTTL == 2
EmailTokenTTL == 1
ResetTokenTTL == 1
Procs == {"p1", "p2"}
Users == {"u1"}
EmailOf(u) == "u1@x"
KnownEmails == {EmailOf(u) : u \in Users}
UnknownEmail == "nobody@x"
Emails == KnownEmails \cup {UnknownEmail}
UserOfEmail(e) == CHOOSE u \in Users : EmailOf(u) = e

\* Passwords are sequences of characters; only their length and identity matter.
GoodPassword == "correct-horse"
WrongPassword == "battery-staple"
NewPassword == "new-password-1"
OtherPassword == "other-password-2"
ShortPassword == "short"
Salts == {1, 2}

Nil == 0 - 1

VARIABLES
    now,            \* time.Now(), in ticks
    userStatus,     \* users.status
    emailVerified,  \* users.email_verified
    cred,           \* user_credentials, one row per user
    passwordHistory, \* password_history rows of each user, oldest first
    mfa,            \* user_mfa_totp, one row per user
    backupCodes,    \* user_mfa_backup_codes rows
    sessions,       \* fast store: session records
    dbSessions,     \* sessions table (durable mirror)
    mfaTokens,      \* fast store: MFA pending records
    emailTokens,    \* email_verification_tokens rows
    resetTokens,    \* password_reset_tokens rows
    loginHistory,   \* login_history rows appended by each request
    auditTrail,     \* security_audit_trail rows appended by each request
    nextId,         \* source of fresh uuids / row ids
    pc,             \* position of each request in its handler
    frame,          \* arguments and locals of each request
    ret,            \* what the handler returned
    hist            \* history of the run, read only by the properties

vars == <<now, userStatus, emailVerified, cred, passwordHistory, mfa, backupCodes,
          sessions, dbSessions, mfaTokens, emailTokens, resetTokens, loginHistory,
          auditTrail, nextId, pc, frame, ret, hist>>

store == <<userStatus, emailVerified, cred, passwordHistory, mfa, backupCodes,
           sessions, dbSessions, mfaTokens, emailTokens, resetTokens>>

\* ----------------------------------------------------------------- hashing
\* argon2.IDKey(password, salt, ...): a digest that identifies the pair.
Argon2(password, salt) == <<password, salt>>

NoHash == [salt |-> 0, digest |-> <<"", 0>>]

\* hashPassword with the salt it drew from rand.Reader.
hashPassword(password, salt) == [salt |-> salt, digest |-> Argon2(password, salt)]

\* verifyPassword: recompute the digest with the stored salt and compare.
verifyPasswordWrong(password, encodedHash) == TRUE
verifyPassword(password, encodedHash) ==
    Argon2(password, encodedHash.salt) = encodedHash.digest

\* ------------------------------------------------------------ domain types
NoCred == [exists |-> FALSE, hash |-> NoHash, failed |-> 0,
           lockedUntil |-> Nil, mustChange |-> FALSE]

\* UserCredential.IsLocked
IsLockedWrong(uc, t) == uc.lockedUntil # Nil /\ uc.lockedUntil < t
IsLocked(uc, t) == uc.lockedUntil # Nil /\ t < uc.lockedUntil

NoMFA == [exists |-> FALSE, secret |-> [nonce |-> 0, sealed |-> <<"gcm", 0>>],
          enabled |-> FALSE]

\* AuthRepository, on the user_credentials row of a user.
IncrementFailedAttempts(uc) == [uc EXCEPT !.failed = @ + 1]
ResetFailedAttempts(uc) == [uc EXCEPT !.failed = 0]
LockAccount(uc, until) == [uc EXCEPT !.lockedUntil = until]

\* lockUntil := time.Now().Add(cfg.LockoutDuration)
LockUntil(t) == t + LockoutDuration

\* the comparison that decides whether Login locks the account
ShouldLockWrong(newCred) ==
    newCred.exists /\ newCred.failed > LockoutThreshold
ShouldLock(newCred) ==
    newCred.exists /\ newCred.failed >= LockoutThreshold

\* --------------------------------------------------------------- processes
EmptyFrame == [op |-> "none", email |-> "", password |-> "", confirm |-> "",
               token |-> Nil, code |-> Nil, uid |-> "none", hash |-> NoHash,
               matched |-> Nil, sid |-> Nil, existing |-> NoCred,
               \* history of this call, read only by the properties
               pwOK |-> FALSE, mfaAtVerify |-> FALSE, made |-> "none",
               nth |-> "none", fresh |-> FALSE, cred0 |-> NoCred,
               before |-> {}, status |-> "", existingMFA |-> NoMFA, secret |-> 0,
               \* the backup codes handed to the caller
               codes |-> {},
               current |-> "", history0 |-> <<>>]

\* len(password) < cfg.PasswordMinLength
PasswordTooWeak(password) == Len(password) < PasswordMinLength

Idle(p) == pc[p] = "idle"
InFlight == {p \in Procs : pc[p] \notin {"idle", "done"}}

\* Identifiers are left for every request in flight and one more.
SessionLeft == nextId.session + Cardinality(InFlight) < MaxSessions
MFATokenLeft == nextId.mfaToken + Cardinality(InFlight) < MaxMFATokens
EmailTokenLeft == nextId.emailToken + Cardinality(InFlight) < MaxEmailTokens
ResetTokenLeft == nextId.resetToken + Cardinality(InFlight) < MaxResetTokens
BatchLeft == nextId.batch + Cardinality(InFlight) < MaxBatches

\* A call may start while the identifiers it may need are left.  Requests
\* are interchangeable: a free p1 serves the next one.
CanStart(p) ==
    /\ Idle(p)
    /\ p = "p2" => ~Idle("p1")

Finish(p, result) ==
    /\ pc' = [pc EXCEPT ![p] = "done"]
    /\ ret' = [ret EXCEPT ![p] = result]

\* logFailedLogin: one login_history row.
FailedRow(uid, reason) == [user |-> uid, success |-> FALSE, reason |-> reason, mfaUsed |-> FALSE]
SuccessRow(uid, mfaUsed) == [user |-> uid, success |-> TRUE, reason |-> "", mfaUsed |-> mfaUsed]
AuditRow(uid, action) == [user |-> uid, action |-> action]

\* ----------------------------------------------------------- session store
\* sessionStore.Get: the record under the key, while its TTL has not run out.
GetSession(sessionID) == {x \in sessions : x.id = sessionID /\ now < x.expires}

\* sessionStore.Refresh: a new expiry for a key that is present.
Refresh(rows, sessionID, newExpiry) ==
    {IF x.id = sessionID /\ now < x.expires THEN [x EXCEPT !.expires = newExpiry] ELSE x :
        x \in rows}

\* sessionStore.Delete and sessionStore.DeleteAllUserSessions
DeleteSession(rows, sessionID) == {x \in rows : x.id # sessionID}
DeleteAllUserSessions(rows, u) == {x \in rows : x.user # u}

\* repo.RevokeSession and repo.RevokeAllUserSessions, on the sessions table
RevokeSession(rows, sessionID) ==
    {IF x.id = sessionID THEN [x EXCEPT !.revoked = TRUE] ELSE x : x \in rows}
RevokeAllUserSessions(rows, u) ==
    {IF x.user = u THEN [x EXCEPT !.revoked = TRUE] ELSE x : x \in rows}

\* Sessions that createSession has handed out for an identity.
IssuedTo(u) == {x.id : x \in {y \in dbSessions : y.user = u}}

\* ------------------------------------------------------------------- Login
\* GetUserByEmail and the status check.
Login_GetUserUnchecked(p, email, password) ==
    /\ CanStart(p)
    /\ SessionLeft
    /\ MFATokenLeft
    /\ LET f == [EmptyFrame EXCEPT !.op = "Login", !.email = email,
                                   !.password = password]
       IN  IF email \notin KnownEmails
           THEN /\ loginHistory' = [loginHistory EXCEPT ![p] = Append(@, FailedRow("none", "user not found"))]
                /\ frame' = [frame EXCEPT ![p] = f]
                /\ Finish(p, "InvalidCredentials")
           ELSE /\ frame' = [frame EXCEPT ![p] = [f EXCEPT !.uid = UserOfEmail(email)]]
                /\ pc' = [pc EXCEPT ![p] = "Login_GetCred"]
                /\ UNCHANGED <<ret, loginHistory>>
    /\ UNCHANGED <<now, store, auditTrail, nextId, hist>>
Login_GetUser(p, email, password) ==
    /\ CanStart(p)
    /\ SessionLeft
    /\ MFATokenLeft
    /\ LET f == [EmptyFrame EXCEPT !.op = "Login", !.email = email,
                                   !.password = password]
       IN  IF email \notin KnownEmails
           THEN /\ loginHistory' = [loginHistory EXCEPT ![p] = Append(@, FailedRow("none", "user not found"))]
                /\ frame' = [frame EXCEPT ![p] = f]
                /\ Finish(p, "InvalidCredentials")
           ELSE LET u == UserOfEmail(email) IN
                IF userStatus[u] # "active"
                THEN /\ loginHistory' = [loginHistory EXCEPT ![p] = Append(@, FailedRow(u, "account not active"))]
                     /\ frame' = [frame EXCEPT ![p] = [f EXCEPT !.uid = u]]
                     /\ Finish(p, "AccountNotActive")
                ELSE /\ frame' = [frame EXCEPT ![p] = [f EXCEPT !.uid = u]]
                     /\ pc' = [pc EXCEPT ![p] = "Login_GetCred"]
                     /\ UNCHANGED <<ret, loginHistory>>
    /\ UNCHANGED <<now, store, auditTrail, nextId, hist>>

\* GetCredentialByUserID and cred.IsLocked().
Login_GetCred(p) ==
    /\ pc[p] = "Login_GetCred"
    /\ LET u == frame[p].uid
           c == cred[u]
       IN  IF ~c.exists
           THEN /\ loginHistory' = [loginHistory EXCEPT ![p] = Append(@, FailedRow(u, "no credentials"))]
                /\ Finish(p, "CredentialsNotFound")
                /\ UNCHANGED frame
           ELSE IF IsLocked(c, now)
           THEN /\ loginHistory' = [loginHistory EXCEPT ![p] = Append(@, FailedRow(u, "account locked"))]
                /\ Finish(p, "AccountLocked")
                /\ UNCHANGED frame
           ELSE /\ frame' = [frame EXCEPT ![p].hash = c.hash, ![p].cred0 = c]
                /\ pc' = [pc EXCEPT ![p] = "Login_Verify"]
                /\ UNCHANGED <<ret, loginHistory>>
    /\ UNCHANGED <<now, store, auditTrail, nextId, hist>>

\* verifyPassword(req.Password, cred.PasswordHash) on the credential read before.
Login_Verify(p) ==
    /\ pc[p] = "Login_Verify"
    /\ LET ok == verifyPassword(frame[p].password, frame[p].hash)
           u == frame[p].uid
       IN  /\ frame' = [frame EXCEPT ![p].pwOK = ok,
                                     ![p].mfaAtVerify = mfa[u].exists /\ mfa[u].enabled]
           /\ pc' = [pc EXCEPT ![p] = IF ok THEN "Login_Reset" ELSE "Login_Increment"]
           /\ hist' = [hist EXCEPT !.streak = IF ok THEN 0 ELSE @ + 1,
                                   !.lockStreak = IF ok THEN 0 ELSE @]
    /\ UNCHANGED <<now, store, loginHistory, auditTrail, nextId, ret>>

\* repo.IncrementFailedAttempts
Login_Increment(p) ==
    /\ pc[p] = "Login_Increment"
    /\ cred' = [cred EXCEPT ![frame[p].uid] = IncrementFailedAttempts(@)]
    /\ pc' = [pc EXCEPT ![p] = "Login_Reread"]
    /\ UNCHANGED <<now, passwordHistory, userStatus, emailVerified, mfa, backupCodes, sessions,
                   dbSessions, mfaTokens, emailTokens, resetTokens, loginHistory,
                   auditTrail, nextId, frame, ret, hist>>

\* newCred, _ := repo.GetCredentialByUserID; the threshold comparison.
Login_Reread(p) ==
    /\ pc[p] = "Login_Reread"
    /\ pc' = [pc EXCEPT ![p] = IF ShouldLock(cred[frame[p].uid])
                               THEN "Login_Lock" ELSE "Login_LogFail"]
    /\ UNCHANGED <<now, store, loginHistory, auditTrail, nextId, frame, ret, hist>>

\* repo.LockAccount(lockUntil) and the account_lock audit row.
Login_Lock(p) ==
    /\ pc[p] = "Login_Lock"
    /\ cred' = [cred EXCEPT ![frame[p].uid] = LockAccount(@, LockUntil(now))]
    /\ auditTrail' = [auditTrail EXCEPT ![p] = Append(@, AuditRow(frame[p].uid, "account_lock"))]
    /\ pc' = [pc EXCEPT ![p] = "Login_LogFail"]
    /\ hist' = [hist EXCEPT !.lockAt = now, !.lockStreak = hist.streak]
    /\ UNCHANGED <<now, passwordHistory, userStatus, emailVerified, mfa, backupCodes, sessions,
                   dbSessions, mfaTokens, emailTokens, resetTokens, loginHistory,
                   nextId, frame, ret>>

\* logFailedLogin("invalid password"); return ErrInvalidCredentials.
Login_LogFailRevealing(p) ==
    /\ pc[p] = "Login_LogFail"
    /\ loginHistory' = [loginHistory EXCEPT ![p] = Append(@, FailedRow(frame[p].uid, "invalid password"))]
    /\ Finish(p, "WrongPassword")
    /\ UNCHANGED <<now, store, auditTrail, nextId, frame, hist>>
Login_LogFail(p) ==
    /\ pc[p] = "Login_LogFail"
    /\ loginHistory' = [loginHistory EXCEPT ![p] = Append(@, FailedRow(frame[p].uid, "invalid password"))]
    /\ Finish(p, "InvalidCredentials")
    /\ UNCHANGED <<now, store, auditTrail, nextId, frame, hist>>

\* repo.ResetFailedAttempts
Login_ResetSkipped(p) ==
    /\ pc[p] = "Login_Reset"
    /\ pc' = [pc EXCEPT ![p] = "Login_GetMFA"]
    /\ UNCHANGED <<now, store, loginHistory, auditTrail, nextId, frame, ret, hist>>
Login_Reset(p) ==
    /\ pc[p] = "Login_Reset"
    /\ cred' = [cred EXCEPT ![frame[p].uid] = ResetFailedAttempts(@)]
    /\ pc' = [pc EXCEPT ![p] = "Login_GetMFA"]
    /\ UNCHANGED <<now, passwordHistory, userStatus, emailVerified, mfa, backupCodes, sessions,
                   dbSessions, mfaTokens, emailTokens, resetTokens, loginHistory,
                   auditTrail, nextId, frame, ret, hist>>

\* mfa, err := repo.GetMFAByUserID; err == nil && mfa != nil && mfa.IsEnabled.
\* lookupOK = FALSE is a lookup that returns an error.
Login_GetMFA(p, lookupOK) ==
    /\ pc[p] = "Login_GetMFA"
    /\ LET m == mfa[frame[p].uid] IN
       pc' = [pc EXCEPT ![p] = IF lookupOK /\ m.exists /\ m.enabled
                               THEN "Login_StoreMFAToken" ELSE "Login_SessionCreate"]
    /\ UNCHANGED <<now, store, loginHistory, auditTrail, nextId, frame, ret, hist>>

\* sessionStore.StoreMFAToken(uuid, pendingData, MFATokenTTL); RequiresMFA.
Login_StoreMFAToken(p) ==
    /\ pc[p] = "Login_StoreMFAToken"
    /\ mfaTokens' = mfaTokens \cup {[token |-> nextId.mfaToken, user |-> frame[p].uid,
                                     email |-> frame[p].email,
                                     expires |-> now + MFATokenTTL]}
    /\ nextId' = [nextId EXCEPT !.mfaToken = @ + 1]
    /\ frame' = [frame EXCEPT ![p].token = nextId.mfaToken, ![p].made = "mfaToken"]
    /\ hist' = [hist EXCEPT !.minted = @ \cup
                   {[token |-> nextId.mfaToken, user |-> frame[p].uid,
                     password |-> frame[p].password]}]
    /\ Finish(p, "RequiresMFA")
    /\ UNCHANGED <<now, passwordHistory, userStatus, emailVerified, cred, mfa, backupCodes, sessions,
                   dbSessions, emailTokens, resetTokens, loginHistory, auditTrail>>

\* createSession, first half: sessionStore.Create.
SessionCreate(p, next) ==
    /\ sessions' = sessions \cup {[id |-> nextId.session, user |-> frame[p].uid,
                                   expires |-> now + SessionTTL]}
    /\ nextId' = [nextId EXCEPT !.session = @ + 1]
    /\ frame' = [frame EXCEPT ![p].sid = nextId.session, ![p].made = "session"]
    /\ hist' = [hist EXCEPT !.issued = @ \cup
                   {[sid |-> nextId.session, user |-> frame[p].uid, op |-> frame[p].op,
                     password |-> frame[p].password, token |-> frame[p].token,
                     code |-> frame[p].code, matched |-> frame[p].matched]}]
    /\ pc' = [pc EXCEPT ![p] = next]
    /\ UNCHANGED <<now, passwordHistory, userStatus, emailVerified, cred, mfa, backupCodes,
                   dbSessions, mfaTokens, emailTokens, resetTokens, loginHistory,
                   auditTrail, ret>>

\* createSession, second half (repo.CreateSession), UpdateUserLoginStats,
\* logSuccessfulLogin; the session is returned.
SessionMirror(p, mfaUsed) ==
    /\ dbSessions' = dbSessions \cup {[id |-> frame[p].sid, user |-> frame[p].uid,
                                       revoked |-> FALSE]}
    /\ loginHistory' = [loginHistory EXCEPT ![p] = Append(@, SuccessRow(frame[p].uid, mfaUsed))]
    /\ auditTrail' = [auditTrail EXCEPT ![p] = Append(@, AuditRow(frame[p].uid, "login_success"))]
    /\ Finish(p, "Session")
    /\ UNCHANGED <<now, passwordHistory, userStatus, emailVerified, cred, mfa, backupCodes, sessions,
                   mfaTokens, emailTokens, resetTokens, nextId, frame, hist>>

\* createSession when sessionStore.Create returns an error: the error is
\* returned, nothing is written.
SessionCreateFails(p) ==
    /\ Finish(p, "failed to create session")
    /\ UNCHANGED <<now, store, loginHistory, auditTrail, nextId, frame, hist>>

\* createSession when repo.CreateSession returns an error: the result of the
\* call is not looked at; the caller goes on and returns the session.
SessionMirrorFails(p, mfaUsed) ==
    /\ loginHistory' = [loginHistory EXCEPT ![p] = Append(@, SuccessRow(frame[p].uid, mfaUsed))]
    /\ auditTrail' = [auditTrail EXCEPT ![p] = Append(@, AuditRow(frame[p].uid, "login_success"))]
    /\ Finish(p, "Session")
    /\ UNCHANGED <<now, store, nextId, frame, hist>>

Login_SessionCreate(p) ==
    /\ pc[p] = "Login_SessionCreate"
    /\ SessionCreate(p, "Login_SessionMirror")

Login_SessionCreateFails(p) ==
    /\ pc[p] = "Login_SessionCreate"
    /\ SessionCreateFails(p)

Login_SessionMirrorFails(p) ==
    /\ pc[p] = "Login_SessionMirror"
    /\ SessionMirrorFails(p, FALSE)

Login_SessionMirror(p) ==
    /\ pc[p] = "Login_SessionMirror"
    /\ SessionMirror(p, FALSE)

\* The handler has returned; the request is over.
Return(p) ==
    /\ pc[p] = "done"
    /\ pc' = [pc EXCEPT ![p] = "idle"]
    /\ frame' = [frame EXCEPT ![p] = EmptyFrame]
    /\ ret' = [ret EXCEPT ![p] = "none"]
    /\ loginHistory' = [loginHistory EXCEPT ![p] = <<>>]
    /\ auditTrail' = [auditTrail EXCEPT ![p] = <<>>]
    /\ UNCHANGED <<now, store, nextId, hist>>

\* Time passes.
Tick ==
    /\ now < MaxTime
    /\ now' = now + 1
    /\ UNCHANGED <<store, loginHistory, auditTrail, nextId, pc, frame, ret, hist>>

LoginStep(p) ==
    \/ \E email \in Emails, password \in {GoodPassword, WrongPassword} :
          Login_GetUser(p, email, password)
    \/ Login_GetCred(p)
    \/ Login_Verify(p)
    \/ Login_Increment(p)
    \/ Login_Reread(p)
    \/ Login_Lock(p)
    \/ Login_LogFail(p)
    \/ Login_Reset(p)
    \/ \E lookupOK \in BOOLEAN : Login_GetMFA(p, lookupOK)
    \/ Login_StoreMFAToken(p)
    \/ Login_SessionCreate(p)
    \/ Login_SessionMirror(p)

\* --------------------------------------------------------------------- MFA
\* encryptTOTPSecret / decryptTOTPSecret: AES-GCM under the configured key.
encryptTOTPSecret(secret, nonce) == [nonce |-> nonce, sealed |-> <<"gcm", secret>>]
decryptTOTPSecret(encrypted) == encrypted.sealed[2]

\* The code an authenticator holding `secret` shows in time step t.
TOTP(secret, t) == [secret |-> secret, step |-> t]
BogusCode == [secret |-> 0, step |-> 0]

\* totp.Validate(code, secret): period 30 s, skew of one step.
totpValidate(code, secret, t) ==
    /\ code.secret = secret
    /\ code.step \in (t - 1)..(t + 1)

\* hashBackupCodeWithSalt
hashBackupCodeWithSalt(code, salt) == <<code, salt>>

\* The backup codes ConfirmTOTP generated: code i under salt i.
GeneratedBackupCodes ==
    [i \in 1..BackupCodeCount |->
        [user |-> "u1", salt |-> i, codeHash |-> hashBackupCodeWithSalt(i, i),
         usedAt |-> Nil]]

\* generateBackupCodes: BackupCodeCount random codes, each hashed under a
\* salt of its own.  The codes of the b-th batch made in a run are numbered
\* from (b - 1) * BackupCodeCount + 1; a row is keyed by its code's number.
BatchCodes(b) == ((b - 1) * BackupCodeCount + 1)..(b * BackupCodeCount)
generateBackupCodes(u, b) ==
    [i \in BatchCodes(b) |->
        [user |-> u, salt |-> i, codeHash |-> hashBackupCodeWithSalt(i, i),
         usedAt |-> Nil]]

\* repo.CreateBackupCodes: the rows are added to the table.
CreateBackupCodes(rows, dbCodes) ==
    [i \in DOMAIN rows \cup DOMAIN dbCodes |->
        IF i \in DOMAIN dbCodes THEN dbCodes[i] ELSE rows[i]]

\* repo.DeleteBackupCodes: the rows of the user are removed.
DeleteBackupCodes(rows, u) ==
    [i \in {j \in DOMAIN rows : rows[j].user # u} |-> rows[i]]

\* sessionStore.GetMFAToken: the record under the token, if it has not expired.
GetMFAToken(token) == {m \in mfaTokens : m.token = token /\ now < m.expires}

\* repo.GetUnusedBackupCodes: the user's rows with used_at IS NULL.
GetUnusedBackupCodes(u) ==
    {i \in DOMAIN backupCodes : backupCodes[i].user = u /\ backupCodes[i].usedAt = Nil}

\* repo.UseBackupCode: used_at = now on the row.
UseBackupCode(row, t) == [row EXCEPT !.usedAt = t]

\* The loop of VerifyBackupCode: the first unused code whose salted hash is
\* that of the code presented (Nil when there is none).
MatchBackupCode(code, ids) ==
    LET hits == {i \in ids :
                    hashBackupCodeWithSalt(code, backupCodes[i].salt) = backupCodes[i].codeHash}
    IN  IF hits = {} THEN Nil ELSE CHOOSE i \in hits : \A j \in hits : i <= j

\* VerifyMFA: sessionStore.GetMFAToken.
VerifyMFA_GetToken(p, token, code) ==
    /\ CanStart(p)
    /\ SessionLeft
    /\ LET f == [EmptyFrame EXCEPT !.op = "VerifyMFA", !.token = token, !.code = code]
           pending == GetMFAToken(token)
       IN  IF pending = {}
           THEN /\ frame' = [frame EXCEPT ![p] = f]
                /\ Finish(p, "InvalidSession")
           ELSE LET m == CHOOSE m \in pending : TRUE IN
                /\ frame' = [frame EXCEPT ![p] = [f EXCEPT !.uid = m.user, !.email = m.email]]
                /\ pc' = [pc EXCEPT ![p] = "VerifyMFA_GetMFA"]
                /\ UNCHANGED ret
    /\ UNCHANGED <<now, store, loginHistory, auditTrail, nextId, hist>>

\* VerifyMFA: repo.GetMFAByUserID, decryptTOTPSecret, totp.Validate.
VerifyMFA_GetMFAConsuming(p) ==
    /\ pc[p] = "VerifyMFA_GetMFA"
    /\ LET u == frame[p].uid
           m == mfa[u]
       IN  IF ~m.exists \/ ~m.enabled
           THEN /\ Finish(p, "MFANotEnabled")
                /\ UNCHANGED <<frame, loginHistory, mfaTokens>>
           ELSE IF ~totpValidate(frame[p].code, decryptTOTPSecret(m.secret), now)
           THEN /\ loginHistory' = [loginHistory EXCEPT ![p] = Append(@, FailedRow(u, "invalid MFA code"))]
                /\ mfaTokens' = {t \in mfaTokens : t.token # frame[p].token}
                /\ Finish(p, "InvalidMFACode")
                /\ UNCHANGED frame
           ELSE /\ pc' = [pc EXCEPT ![p] = "VerifyMFA_DeleteToken"]
                /\ UNCHANGED <<frame, ret, loginHistory, mfaTokens>>
    /\ UNCHANGED <<now, passwordHistory, userStatus, emailVerified, cred, mfa, backupCodes,
                   sessions, dbSessions, emailTokens, resetTokens, auditTrail, nextId, hist>>
VerifyMFA_GetMFA(p) ==
    /\ pc[p] = "VerifyMFA_GetMFA"
    /\ LET u == frame[p].uid
           m == mfa[u]
       IN  IF ~m.exists \/ ~m.enabled
           THEN /\ Finish(p, "MFANotEnabled")
                /\ UNCHANGED <<frame, loginHistory>>
           ELSE IF ~totpValidate(frame[p].code, decryptTOTPSecret(m.secret), now)
           THEN /\ loginHistory' = [loginHistory EXCEPT ![p] = Append(@, FailedRow(u, "invalid MFA code"))]
                /\ Finish(p, "InvalidMFACode")
                /\ UNCHANGED frame
           ELSE /\ pc' = [pc EXCEPT ![p] = "VerifyMFA_DeleteToken"]
                /\ UNCHANGED <<frame, ret, loginHistory>>
    /\ UNCHANGED <<now, store, auditTrail, nextId, hist>>

\* sessionStore.DeleteMFAToken
DeleteMFAToken(p, next) ==
    /\ mfaTokens' = {m \in mfaTokens : m.token # frame[p].token}
    /\ pc' = [pc EXCEPT ![p] = next]
    /\ UNCHANGED <<now, passwordHistory, userStatus, emailVerified, cred, mfa, backupCodes, sessions,
                   dbSessions, emailTokens, resetTokens, loginHistory, auditTrail,
                   nextId, frame, ret, hist>>

VerifyMFA_DeleteToken(p) ==
    /\ pc[p] = "VerifyMFA_DeleteToken"
    /\ DeleteMFAToken(p, "VerifyMFA_SessionCreate")

\* repo.GetUserByEmail(pending.Email) (the user row is there) and the first
\* half of createSession.
VerifyMFA_SessionCreate(p) ==
    /\ pc[p] = "VerifyMFA_SessionCreate"
    /\ SessionCreate(p, "VerifyMFA_SessionMirror")

VerifyMFA_SessionMirror(p) ==
    /\ pc[p] = "VerifyMFA_SessionMirror"
    /\ SessionMirror(p, TRUE)

VerifyMFA_SessionCreateFails(p) ==
    /\ pc[p] = "VerifyMFA_SessionCreate"
    /\ SessionCreateFails(p)

VerifyMFA_SessionMirrorFails(p) ==
    /\ pc[p] = "VerifyMFA_SessionMirror"
    /\ SessionMirrorFails(p, TRUE)

\* VerifyBackupCode: sessionStore.GetMFAToken.
VerifyBackupCode_GetToken(p, token, code) ==
    /\ CanStart(p)
    /\ SessionLeft
    /\ LET f == [EmptyFrame EXCEPT !.op = "VerifyBackupCode", !.token = token, !.code = code]
           pending == GetMFAToken(token)
       IN  IF pending = {}
           THEN /\ frame' = [frame EXCEPT ![p] = f]
                /\ Finish(p, "InvalidSession")
           ELSE LET m == CHOOSE m \in pending : TRUE IN
                /\ frame' = [frame EXCEPT ![p] = [f EXCEPT !.uid = m.user, !.email = m.email]]
                /\ pc' = [pc EXCEPT ![p] = "VerifyBackupCode_GetCodes"]
                /\ UNCHANGED ret
    /\ UNCHANGED <<now, store, loginHistory, auditTrail, nextId, hist>>

\* VerifyBackupCode: repo.GetUnusedBackupCodes and the matching loop.
VerifyBackupCode_GetCodes(p) ==
    /\ pc[p] = "VerifyBackupCode_GetCodes"
    /\ LET u == frame[p].uid
           matchedCode == MatchBackupCode(frame[p].code, GetUnusedBackupCodes(u))
       IN  IF matchedCode = Nil
           THEN /\ loginHistory' = [loginHistory EXCEPT ![p] = Append(@, FailedRow(u, "invalid backup code"))]
                /\ Finish(p, "InvalidMFACode")
                /\ UNCHANGED frame
           ELSE /\ frame' = [frame EXCEPT ![p].matched = matchedCode]
                /\ pc' = [pc EXCEPT ![p] = "VerifyBackupCode_UseCode"]
                /\ UNCHANGED <<ret, loginHistory>>
    /\ UNCHANGED <<now, store, auditTrail, nextId, hist>>

\* repo.UseBackupCode(matchedCode.ID): used_at = now; the mfa_backup_used audit row.
VerifyBackupCode_UseCodeSkipped(p) ==
    /\ pc[p] = "VerifyBackupCode_UseCode"
    /\ pc' = [pc EXCEPT ![p] = "VerifyBackupCode_DeleteToken"]
    /\ UNCHANGED <<now, store, loginHistory, auditTrail, nextId, frame, ret, hist>>
VerifyBackupCode_UseCode(p) ==
    /\ pc[p] = "VerifyBackupCode_UseCode"
    /\ backupCodes' = [backupCodes EXCEPT ![frame[p].matched] = UseBackupCode(@, now)]
    /\ auditTrail' = [auditTrail EXCEPT ![p] = Append(@, AuditRow(frame[p].uid, "mfa_backup_used"))]
    /\ pc' = [pc EXCEPT ![p] = "VerifyBackupCode_DeleteToken"]
    /\ UNCHANGED <<now, passwordHistory, userStatus, emailVerified, cred, mfa, sessions, dbSessions,
                   mfaTokens, emailTokens, resetTokens, loginHistory, nextId, frame,
                   ret, hist>>

VerifyBackupCode_DeleteToken(p) ==
    /\ pc[p] = "VerifyBackupCode_DeleteToken"
    /\ DeleteMFAToken(p, "VerifyBackupCode_SessionCreate")

VerifyBackupCode_SessionCreate(p) ==
    /\ pc[p] = "VerifyBackupCode_SessionCreate"
    /\ SessionCreate(p, "VerifyBackupCode_SessionMirror")

VerifyBackupCode_SessionMirror(p) ==
    /\ pc[p] = "VerifyBackupCode_SessionMirror"
    /\ SessionMirror(p, TRUE)

\* The tokens and codes a client presents.
TokenInputs == 0..(MaxMFATokens - 1)
TOTPInputs == {TOTP(1, now), BogusCode}
BackupCodeInputs == {1, 2, 0}

VerifyMFAStep(p) ==
    \/ \E token \in TokenInputs, code \in TOTPInputs : VerifyMFA_GetToken(p, token, code)
    \/ VerifyMFA_GetMFA(p)
    \/ VerifyMFA_DeleteToken(p)
    \/ VerifyMFA_SessionCreate(p)
    \/ VerifyMFA_SessionMirror(p)

VerifyBackupCodeStep(p) ==
    \/ \E token \in TokenInputs, code \in BackupCodeInputs :
          VerifyBackupCode_GetToken(p, token, code)
    \/ VerifyBackupCode_GetCodes(p)
    \/ VerifyBackupCode_UseCode(p)
    \/ VerifyBackupCode_DeleteToken(p)
    \/ VerifyBackupCode_SessionCreate(p)
    \/ VerifyBackupCode_SessionMirror(p)

\* ------------------------------------------------------------------ tokens
\* EmailVerificationToken / PasswordResetToken: IsExpired, IsUsed.
TokenIsExpired(t, at) == at > t.expires
TokenIsUsedWrong(t) == FALSE
TokenIsUsed(t) == t.usedAt # Nil

\* History of a call that presents `token`: whether it is the first or a
\* later one to present it since it was issued, and whether it is issued
\* and unexpired.
Nth(token, issued, tried) ==
    IF token \notin {t.token : t \in issued} THEN "none"
    ELSE IF token \in tried THEN "later" ELSE "first"
Fresh(token, issued) == \E t \in issued : t.token = token /\ now <= t.expires

\* registrationRepository
TokenRow(id, u, expires) == [id |-> id, token |-> id, user |-> u, expires |-> expires,
                            usedAt |-> Nil]
GetToken(rows, token) == {t \in rows : t.token = token}
MarkTokenUsed(rows, id, at) ==
    {IF t.id = id THEN [t EXCEPT !.usedAt = at] ELSE t : t \in rows}
DeleteUserTokens(rows, u) == {t \in rows : t.user # u}

\* VerifyEmail: GetEmailVerificationToken; IsExpired() || IsUsed().
VerifyEmail_GetToken(p, token) ==
    /\ CanStart(p)
    /\ LET f == [EmptyFrame EXCEPT !.op = "VerifyEmail", !.token = token,
                       !.nth = Nth(token, hist.emailIssued, hist.emailTried),
                       !.fresh = Fresh(token, hist.emailIssued)]
           found == GetToken(emailTokens, token)
       IN  /\ hist' = IF f.nth = "none" THEN hist
                      ELSE [hist EXCEPT !.emailTried = @ \cup {token}]
           /\ IF found = {}
              THEN /\ frame' = [frame EXCEPT ![p] = f]
                   /\ Finish(p, "InvalidVerificationToken")
              ELSE LET t == CHOOSE t \in found : TRUE IN
                   IF TokenIsExpired(t, now) \/ TokenIsUsed(t)
                   THEN /\ frame' = [frame EXCEPT ![p] = [f EXCEPT !.uid = t.user]]
                        /\ Finish(p, "InvalidVerificationToken")
                   ELSE /\ frame' = [frame EXCEPT ![p] = [f EXCEPT !.uid = t.user]]
                        /\ pc' = [pc EXCEPT ![p] = "VerifyEmail_MarkUsed"]
                        /\ UNCHANGED ret
    /\ UNCHANGED <<now, store, loginHistory, auditTrail, nextId>>

\* MarkEmailVerificationTokenUsed
VerifyEmail_MarkUsed(p) ==
    /\ pc[p] = "VerifyEmail_MarkUsed"
    /\ emailTokens' = MarkTokenUsed(emailTokens, frame[p].token, now)
    /\ pc' = [pc EXCEPT ![p] = "VerifyEmail_UpdateVerified"]
    /\ UNCHANGED <<now, passwordHistory, userStatus, emailVerified, cred, mfa, backupCodes, sessions,
                   dbSessions, mfaTokens, resetTokens, loginHistory, auditTrail,
                   nextId, frame, ret, hist>>

\* UpdateUserEmailVerified
VerifyEmail_UpdateVerified(p) ==
    /\ pc[p] = "VerifyEmail_UpdateVerified"
    /\ emailVerified' = [emailVerified EXCEPT ![frame[p].uid] = TRUE]
    /\ pc' = [pc EXCEPT ![p] = "VerifyEmail_UpdateStatus"]
    /\ UNCHANGED <<now, passwordHistory, userStatus, cred, mfa, backupCodes, sessions, dbSessions,
                   mfaTokens, emailTokens, resetTokens, loginHistory, auditTrail,
                   nextId, frame, ret, hist>>

\* authRepo.UpdateUserStatus(active, "email verified"); return nil.
VerifyEmail_UpdateStatus(p) ==
    /\ pc[p] = "VerifyEmail_UpdateStatus"
    /\ userStatus' = [userStatus EXCEPT ![frame[p].uid] = "active"]
    /\ Finish(p, "OK")
    /\ UNCHANGED <<now, passwordHistory, emailVerified, cred, mfa, backupCodes, sessions, dbSessions,
                   mfaTokens, emailTokens, resetTokens, loginHistory, auditTrail,
                   nextId, frame, hist>>

\* ResendVerificationEmail: GetUserByEmail and the status check.
Resend_GetUser(p, email) ==
    /\ CanStart(p)
    /\ EmailTokenLeft
    /\ LET f == [EmptyFrame EXCEPT !.op = "ResendVerificationEmail", !.email = email]
       IN  IF email \notin KnownEmails
           THEN /\ frame' = [frame EXCEPT ![p] = f]
                /\ Finish(p, "OK")
           ELSE LET u == UserOfEmail(email) IN
                /\ frame' = [frame EXCEPT ![p] = [f EXCEPT !.uid = u]]
                /\ IF userStatus[u] = "active"
                   THEN Finish(p, "UserAlreadyVerified")
                   ELSE /\ pc' = [pc EXCEPT ![p] = "Resend_Delete"]
                        /\ UNCHANGED ret
    /\ UNCHANGED <<now, store, loginHistory, auditTrail, nextId, hist>>

\* DeleteUserEmailVerificationTokens
Resend_Delete(p) ==
    /\ pc[p] = "Resend_Delete"
    /\ emailTokens' = DeleteUserTokens(emailTokens, frame[p].uid)
    /\ pc' = [pc EXCEPT ![p] = "Resend_Create"]
    /\ UNCHANGED <<now, passwordHistory, userStatus, emailVerified, cred, mfa, backupCodes, sessions,
                   dbSessions, mfaTokens, resetTokens, loginHistory, auditTrail,
                   nextId, frame, ret, hist>>

\* generateSecureToken; CreateEmailVerificationToken; return nil.
Resend_Create(p) ==
    /\ pc[p] = "Resend_Create"
    /\ LET t == TokenRow(nextId.emailToken, frame[p].uid, now + EmailTokenTTL) IN
       /\ emailTokens' = emailTokens \cup {t}
       /\ hist' = [hist EXCEPT !.emailIssued = @ \cup {t}]
       /\ frame' = [frame EXCEPT ![p].token = t.token]
    /\ nextId' = [nextId EXCEPT !.emailToken = @ + 1]
    /\ Finish(p, "OK")
    /\ UNCHANGED <<now, passwordHistory, userStatus, emailVerified, cred, mfa, backupCodes, sessions,
                   dbSessions, mfaTokens, resetTokens, loginHistory, auditTrail>>

\* RegistrationHandler.ForgotPassword: the response for what the service
\* returned.
ForgotPasswordResponse(err) ==
    IF err = "OK"
    THEN [status |-> 200, success |-> TRUE,
          message |-> "If an account exists with this email, a password reset link has been sent."]
    ELSE [status |-> 500, success |-> FALSE, message |-> err]

\* ForgotPassword: GetUserByEmail.
Forgot_GetUserRevealing(p, email) ==
    /\ CanStart(p)
    /\ email \in KnownEmails => ResetTokenLeft
    /\ LET f == [EmptyFrame EXCEPT !.op = "ForgotPassword", !.email = email]
       IN  IF email \notin KnownEmails
           THEN /\ frame' = [frame EXCEPT ![p] = f]
                /\ Finish(p, "failed to get user")
           ELSE /\ frame' = [frame EXCEPT ![p] = [f EXCEPT !.uid = UserOfEmail(email)]]
                /\ pc' = [pc EXCEPT ![p] = "Forgot_Delete"]
                /\ UNCHANGED ret
    /\ UNCHANGED <<now, store, loginHistory, auditTrail, nextId, hist>>
Forgot_GetUser(p, email) ==
    /\ CanStart(p)
    /\ email \in KnownEmails => ResetTokenLeft
    /\ LET f == [EmptyFrame EXCEPT !.op = "ForgotPassword", !.email = email]
       IN  IF email \notin KnownEmails
           THEN /\ frame' = [frame EXCEPT ![p] = f]
                /\ Finish(p, "OK")
           ELSE /\ frame' = [frame EXCEPT ![p] = [f EXCEPT !.uid = UserOfEmail(email)]]
                /\ pc' = [pc EXCEPT ![p] = "Forgot_Delete"]
                /\ UNCHANGED ret
    /\ UNCHANGED <<now, store, loginHistory, auditTrail, nextId, hist>>

\* DeleteUserPasswordResetTokens
Forgot_Delete(p) ==
    /\ pc[p] = "Forgot_Delete"
    /\ resetTokens' = DeleteUserTokens(resetTokens, frame[p].uid)
    /\ pc' = [pc EXCEPT ![p] = "Forgot_Create"]
    /\ UNCHANGED <<now, passwordHistory, userStatus, emailVerified, cred, mfa, backupCodes, sessions,
                   dbSessions, mfaTokens, emailTokens, loginHistory, auditTrail,
                   nextId, frame, ret, hist>>

\* generateSecureToken; CreatePasswordResetToken; return nil.
Forgot_Create(p) ==
    /\ pc[p] = "Forgot_Create"
    /\ LET t == TokenRow(nextId.resetToken, frame[p].uid, now + ResetTokenTTL) IN
       /\ resetTokens' = resetTokens \cup {t}
       /\ hist' = [hist EXCEPT !.resetIssued = @ \cup {t}]
       /\ frame' = [frame EXCEPT ![p].token = t.token]
    /\ nextId' = [nextId EXCEPT !.resetToken = @ + 1]
    /\ Finish(p, "OK")
    /\ UNCHANGED <<now, passwordHistory, userStatus, emailVerified, cred, mfa, backupCodes, sessions,
                   dbSessions, mfaTokens, emailTokens, loginHistory, auditTrail>>

\* ResetPassword: the two validations, GetPasswordResetToken,
\* IsExpired() || IsUsed().
Reset_GetTokenUnvalidated(p, token, newPassword, confirmPassword) ==
    /\ CanStart(p)
    /\ LET f == [EmptyFrame EXCEPT !.op = "ResetPassword", !.token = token,
                                   !.password = newPassword, !.confirm = confirmPassword,
                                   !.cred0 = cred["u1"]]
           found == GetToken(resetTokens, token)
       IN  IF found = {}
           THEN /\ frame' = [frame EXCEPT ![p] = f]
                /\ Finish(p, "InvalidResetToken")
           ELSE LET t == CHOOSE t \in found : TRUE IN
                IF TokenIsExpired(t, now) \/ TokenIsUsed(t)
                THEN /\ frame' = [frame EXCEPT ![p] = [f EXCEPT !.uid = t.user]]
                     /\ Finish(p, "InvalidResetToken")
                ELSE /\ frame' = [frame EXCEPT ![p] = [f EXCEPT !.uid = t.user]]
                     /\ pc' = [pc EXCEPT ![p] = "Reset_MarkUsed"]
                     /\ UNCHANGED ret
    /\ UNCHANGED <<now, store, loginHistory, auditTrail, nextId, hist>>
Reset_GetToken(p, token, newPassword, confirmPassword) ==
    /\ CanStart(p)
    /\ LET valid == newPassword = confirmPassword /\ ~PasswordTooWeak(newPassword)
           f == [EmptyFrame EXCEPT !.op = "ResetPassword", !.token = token,
                                   !.password = newPassword, !.confirm = confirmPassword,
                       !.nth = IF valid THEN Nth(token, hist.resetIssued, hist.resetTried)
                               ELSE "none",
                       !.fresh = Fresh(token, hist.resetIssued),
                       !.cred0 = cred["u1"],
                       !.before = UNION {IssuedTo(t.user) : t \in GetToken(resetTokens, token)}]
           found == GetToken(resetTokens, token)
       IN  /\ hist' = IF f.nth = "none" THEN hist
                      ELSE [hist EXCEPT !.resetTried = @ \cup {token}]
           /\ IF newPassword # confirmPassword
              THEN /\ frame' = [frame EXCEPT ![p] = f]
                   /\ Finish(p, "PasswordMismatch")
              ELSE IF PasswordTooWeak(newPassword)
              THEN /\ frame' = [frame EXCEPT ![p] = f]
                   /\ Finish(p, "PasswordTooWeak")
              ELSE IF found = {}
              THEN /\ frame' = [frame EXCEPT ![p] = f]
                   /\ Finish(p, "InvalidResetToken")
              ELSE LET t == CHOOSE t \in found : TRUE IN
                   IF TokenIsExpired(t, now) \/ TokenIsUsed(t)
                   THEN /\ frame' = [frame EXCEPT ![p] = [f EXCEPT !.uid = t.user]]
                        /\ Finish(p, "InvalidResetToken")
                   ELSE /\ frame' = [frame EXCEPT ![p] = [f EXCEPT !.uid = t.user]]
                        /\ pc' = [pc EXCEPT ![p] = "Reset_MarkUsed"]
                        /\ UNCHANGED ret
    /\ UNCHANGED <<now, store, loginHistory, auditTrail, nextId>>

\* MarkPasswordResetTokenUsed
Reset_MarkUsed(p) ==
    /\ pc[p] = "Reset_MarkUsed"
    /\ resetTokens' = MarkTokenUsed(resetTokens, frame[p].token, now)
    /\ pc' = [pc EXCEPT ![p] = "Reset_SetPassword"]
    /\ UNCHANGED <<now, passwordHistory, userStatus, emailVerified, cred, mfa, backupCodes, sessions,
                   dbSessions, mfaTokens, emailTokens, loginHistory, auditTrail,
                   nextId, frame, ret, hist>>

\* The password of a credential that a write replaces.
Overwritten(existing) == IF existing.exists THEN {existing.hash.digest[1]} ELSE {}

\* SetPassword, first half: the length check, hashPassword with a salt from
\* rand.Reader, GetCredentialByUserID.
SetPassword_GetCred(p, salt, next) ==
    /\ IF PasswordTooWeak(frame[p].password)
       THEN /\ Finish(p, "failed to set password")
            /\ UNCHANGED frame
       ELSE /\ frame' = [frame EXCEPT ![p].hash = hashPassword(frame[p].password, salt),
                                      ![p].existing = cred[frame[p].uid]]
            /\ pc' = [pc EXCEPT ![p] = next]
            /\ UNCHANGED ret
    /\ UNCHANGED <<now, store, loginHistory, auditTrail, nextId, hist>>

\* SetPassword, second half: UpdateCredential(existing) or CreateCredential.
SetPassword_Write(p, next) ==
    /\ cred' = [cred EXCEPT ![frame[p].uid] =
                   IF frame[p].existing.exists
                   THEN [frame[p].existing EXCEPT !.hash = frame[p].hash,
                                                  !.mustChange = TRUE]
                   ELSE [NoCred EXCEPT !.exists = TRUE, !.hash = frame[p].hash,
                                       !.mustChange = TRUE]]
    /\ pc' = [pc EXCEPT ![p] = next]
    /\ UNCHANGED <<now, passwordHistory, userStatus, emailVerified, mfa, backupCodes, sessions,
                   dbSessions, mfaTokens, emailTokens, resetTokens, loginHistory,
                   auditTrail, nextId, frame, ret>>

Reset_SetPassword(p, salt) ==
    /\ pc[p] = "Reset_SetPassword"
    /\ SetPassword_GetCred(p, salt, "Reset_WritePassword")

Reset_WritePassword(p) ==
    /\ pc[p] = "Reset_WritePassword"
    /\ SetPassword_Write(p, "Reset_DeleteTokens")
    /\ hist' = [hist EXCEPT !.resetWrites = @ \cup
                   {[token |-> frame[p].token, by |-> p, password |-> frame[p].password]},
                            !.overwritten = @ \cup Overwritten(frame[p].existing)]

\* DeleteUserPasswordResetTokens
Reset_DeleteTokens(p) ==
    /\ pc[p] = "Reset_DeleteTokens"
    /\ resetTokens' = DeleteUserTokens(resetTokens, frame[p].uid)
    /\ pc' = [pc EXCEPT ![p] = "Reset_DeleteSessions"]
    /\ UNCHANGED <<now, passwordHistory, userStatus, emailVerified, cred, mfa, backupCodes, sessions,
                   dbSessions, mfaTokens, emailTokens, loginHistory, auditTrail,
                   nextId, frame, ret, hist>>

\* LogoutAll, first half: sessionStore.DeleteAllUserSessions.
LogoutAll_DeleteSessions(p, next) ==
    /\ sessions' = DeleteAllUserSessions(sessions, frame[p].uid)
    /\ hist' = [hist EXCEPT !.deleted = @ \cup
                   {x.id : x \in {y \in sessions : y.user = frame[p].uid}}]
    /\ pc' = [pc EXCEPT ![p] = next]
    /\ UNCHANGED <<now, passwordHistory, userStatus, emailVerified, cred, mfa, backupCodes, dbSessions,
                   mfaTokens, emailTokens, resetTokens, loginHistory, auditTrail,
                   nextId, frame, ret>>

\* LogoutAll, second half: repo.RevokeAllUserSessions and the logout_all
\* audit row; the caller returns.
LogoutAll_Revoke(p, result) ==
    /\ dbSessions' = RevokeAllUserSessions(dbSessions, frame[p].uid)
    /\ auditTrail' = [auditTrail EXCEPT ![p] = Append(@, AuditRow(frame[p].uid, "logout_all"))]
    /\ Finish(p, result)
    /\ UNCHANGED <<now, passwordHistory, userStatus, emailVerified, cred, mfa, backupCodes, sessions,
                   mfaTokens, emailTokens, resetTokens, loginHistory, nextId, frame,
                   hist>>

Reset_DeleteSessionsSkipped(p) ==
    /\ pc[p] = "Reset_DeleteSessions"
    /\ pc' = [pc EXCEPT ![p] = "Reset_RevokeSessions"]
    /\ UNCHANGED <<now, store, loginHistory, auditTrail, nextId, frame, ret, hist>>
Reset_DeleteSessions(p) ==
    /\ pc[p] = "Reset_DeleteSessions"
    /\ LogoutAll_DeleteSessions(p, "Reset_RevokeSessions")

Reset_RevokeSessions(p) ==
    /\ pc[p] = "Reset_RevokeSessions"
    /\ LogoutAll_Revoke(p, "OK")

\* ---------------------------------------------------------------- Register
\* A users row that does not exist has status "none".
EmailExists(email) == userStatus[UserOfEmail(email)] # "none"

\* Register: the two validations and regRepo.EmailExists.
Register_Check(p, email, password, confirmPassword) ==
    /\ CanStart(p)
    /\ EmailTokenLeft
    /\ frame' = [frame EXCEPT ![p] = [EmptyFrame EXCEPT !.op = "Register", !.email = email,
                                                        !.password = password,
                                                        !.confirm = confirmPassword]]
    /\ IF password # confirmPassword
       THEN Finish(p, "PasswordMismatch")
       ELSE IF PasswordTooWeak(password)
       THEN Finish(p, "PasswordTooWeak")
       ELSE IF EmailExists(email)
       THEN Finish(p, "EmailAlreadyExists")
       ELSE /\ pc' = [pc EXCEPT ![p] = "Register_CreateUser"]
            /\ UNCHANGED ret
    /\ UNCHANGED <<now, store, loginHistory, auditTrail, nextId, hist>>

\* regRepo.CreateUser: the row is inserted with status pending_verification
\* unless the unique index on the email refuses it.
Register_CreateUser(p) ==
    /\ pc[p] = "Register_CreateUser"
    /\ LET u == UserOfEmail(frame[p].email) IN
       IF EmailExists(frame[p].email)
       THEN /\ Finish(p, "failed to create user")
            /\ UNCHANGED <<userStatus, frame>>
       ELSE /\ userStatus' = [userStatus EXCEPT ![u] = "pending_verification"]
            /\ frame' = [frame EXCEPT ![p].uid = u]
            /\ pc' = [pc EXCEPT ![p] = "Register_SetPassword"]
            /\ UNCHANGED ret
    /\ UNCHANGED <<now, passwordHistory, emailVerified, cred, mfa, backupCodes, sessions,
                   dbSessions, mfaTokens, emailTokens, resetTokens, loginHistory,
                   auditTrail, nextId, hist>>

\* authService.SetPassword, in its two store calls.
Register_SetPassword(p, salt) ==
    /\ pc[p] = "Register_SetPassword"
    /\ SetPassword_GetCred(p, salt, "Register_WriteCred")

Register_WriteCred(p) ==
    /\ pc[p] = "Register_WriteCred"
    /\ SetPassword_Write(p, "Register_CreateToken")
    /\ UNCHANGED hist

\* CreateCredential returns an error: Register returns it; the users row stays.
Register_WriteCredFails(p) ==
    /\ pc[p] = "Register_WriteCred"
    /\ Finish(p, "failed to set password")
    /\ UNCHANGED <<now, store, loginHistory, auditTrail, nextId, frame, hist>>

\* generateSecureToken, regRepo.CreateEmailVerificationToken; the response.
Register_CreateToken(p) ==
    /\ pc[p] = "Register_CreateToken"
    /\ LET t == TokenRow(nextId.emailToken, frame[p].uid, now + EmailTokenTTL) IN
       /\ emailTokens' = emailTokens \cup {t}
       /\ hist' = [hist EXCEPT !.emailIssued = @ \cup {t}]
       /\ frame' = [frame EXCEPT ![p].token = t.token]
    /\ nextId' = [nextId EXCEPT !.emailToken = @ + 1]
    /\ Finish(p, "Registered")
    /\ UNCHANGED <<now, passwordHistory, userStatus, emailVerified, cred, mfa, backupCodes, sessions,
                   dbSessions, mfaTokens, resetTokens, loginHistory, auditTrail>>

RegisterStep(p) ==
    \/ \E password \in {GoodPassword, ShortPassword},
          confirmPassword \in {GoodPassword, ShortPassword} :
          Register_Check(p, EmailOf("u1"), password, confirmPassword)
    \/ Register_CreateUser(p)
    \/ \E salt \in Salts : Register_SetPassword(p, salt)
    \/ Register_WriteCred(p)
    \/ Register_WriteCredFails(p)
    \/ Register_CreateToken(p)

EmailTokenInputs == 0..(MaxEmailTokens - 1)
ResetTokenInputs == 0..(MaxResetTokens - 1)

VerifyEmailStep(p) ==
    \/ \E token \in EmailTokenInputs : VerifyEmail_GetToken(p, token)
    \/ VerifyEmail_MarkUsed(p)
    \/ VerifyEmail_UpdateVerified(p)
    \/ VerifyEmail_UpdateStatus(p)

ResendStep(p) ==
    \/ \E email \in Emails : Resend_GetUser(p, email)
    \/ Resend_Delete(p)
    \/ Resend_Create(p)

ForgotPasswordStep(p) ==
    \/ \E email \in Emails : Forgot_GetUser(p, email)
    \/ Forgot_Delete(p)
    \/ Forgot_Create(p)

ResetPasswordStep(p) ==
    \/ \E token \in ResetTokenInputs, newPassword, confirmPassword \in {NewPassword, ShortPassword} :
          Reset_GetToken(p, token, newPassword, confirmPassword)
    \/ Reset_MarkUsed(p)
    \/ \E salt \in Salts : Reset_SetPassword(p, salt)
    \/ Reset_WritePassword(p)
    \/ Reset_DeleteTokens(p)
    \/ Reset_DeleteSessions(p)
    \/ Reset_RevokeSessions(p)

\* --------------------------------------------------------------- passwords
\* repo.GetPasswordHistory(userID, limit): the newest `limit` rows.
GetPasswordHistory(rows, limit) ==
    IF Len(rows) <= limit THEN rows ELSE SubSeq(rows, Len(rows) - limit + 1, Len(rows))

\* repo.CreatePasswordHistory
CreatePasswordHistory(rows, passwordHash) == Append(rows, passwordHash)

\* checkPasswordHistory: verifyPassword of the new password against each
\* hash read.
PasswordReusedWrong(newPassword, history) == FALSE
PasswordReused(newPassword, history) ==
    \E k \in DOMAIN history : verifyPassword(newPassword, history[k])

\* ChangePassword: GetCredentialByUserID.
Change_GetCred(p, u, currentPass, newPass) ==
    /\ CanStart(p)
    /\ Len(passwordHistory[u]) < MaxHistory
    /\ LET f == [EmptyFrame EXCEPT !.op = "ChangePassword", !.uid = u,
                                   !.current = currentPass, !.password = newPass,
                                   !.cred0 = cred[u], !.history0 = passwordHistory[u]]
       IN  IF ~cred[u].exists
           THEN /\ frame' = [frame EXCEPT ![p] = f]
                /\ Finish(p, "CredentialsNotFound")
           ELSE /\ frame' = [frame EXCEPT ![p] = [f EXCEPT !.existing = cred[u]]]
                /\ pc' = [pc EXCEPT ![p] = "Change_Verify"]
                /\ UNCHANGED ret
    /\ UNCHANGED <<now, store, loginHistory, auditTrail, nextId, hist>>

\* ChangePassword: verifyPassword(currentPass, cred.PasswordHash) on the
\* credential read before, then the length check of the new password.
Change_VerifyUnchecked(p) ==
    /\ pc[p] = "Change_Verify"
    /\ pc' = [pc EXCEPT ![p] = "Change_CheckHistory"]
    /\ UNCHANGED <<now, store, loginHistory, auditTrail, nextId, frame, ret, hist>>
Change_Verify(p) ==
    /\ pc[p] = "Change_Verify"
    /\ IF ~verifyPassword(frame[p].current, frame[p].existing.hash)
       THEN Finish(p, "InvalidCredentials")
       ELSE IF PasswordTooWeak(frame[p].password)
       THEN Finish(p, "PasswordTooWeak")
       ELSE /\ pc' = [pc EXCEPT ![p] = "Change_CheckHistory"]
            /\ UNCHANGED ret
    /\ UNCHANGED <<now, store, loginHistory, auditTrail, nextId, frame, hist>>

\* ChangePassword: checkPasswordHistory (GetPasswordHistory and the loop),
\* then hashPassword with a salt from rand.Reader.
Change_CheckHistory(p, salt) ==
    /\ pc[p] = "Change_CheckHistory"
    /\ LET history == GetPasswordHistory(passwordHistory[frame[p].uid], PasswordHistoryCount)
       IN  IF PasswordReused(frame[p].password, history)
           THEN /\ Finish(p, "PasswordReused")
                /\ UNCHANGED frame
           ELSE /\ frame' = [frame EXCEPT ![p].hash = hashPassword(frame[p].password, salt)]
                /\ pc' = [pc EXCEPT ![p] = "Change_AddHistory"]
                /\ UNCHANGED ret
    /\ UNCHANGED <<now, store, loginHistory, auditTrail, nextId, hist>>

\* ChangePassword: repo.CreatePasswordHistory with the hash of the
\* credential read before.
Change_AddHistorySkipped(p) ==
    /\ pc[p] = "Change_AddHistory"
    /\ pc' = [pc EXCEPT ![p] = "Change_Update"]
    /\ UNCHANGED <<now, store, loginHistory, auditTrail, nextId, frame, ret, hist>>
Change_AddHistory(p) ==
    /\ pc[p] = "Change_AddHistory"
    /\ passwordHistory' = [passwordHistory EXCEPT ![frame[p].uid] =
                              CreatePasswordHistory(@, frame[p].existing.hash)]
    /\ pc' = [pc EXCEPT ![p] = "Change_Update"]
    /\ UNCHANGED <<now, userStatus, emailVerified, cred, mfa, backupCodes, sessions,
                   dbSessions, mfaTokens, emailTokens, resetTokens, loginHistory,
                   auditTrail, nextId, frame, ret, hist>>

\* ChangePassword: repo.UpdateCredential of the credential read before, with
\* the new hash and MustChangePassword false; the password_change audit row.
Change_Update(p) ==
    /\ pc[p] = "Change_Update"
    /\ cred' = [cred EXCEPT ![frame[p].uid] =
                   [frame[p].existing EXCEPT !.hash = frame[p].hash, !.mustChange = FALSE]]
    /\ auditTrail' = [auditTrail EXCEPT ![p] =
                         Append(@, AuditRow(frame[p].uid, "password_change"))]
    /\ hist' = [hist EXCEPT !.changed = Append(@, frame[p].existing.hash.digest[1])]
    /\ Finish(p, "OK")
    /\ UNCHANGED <<now, passwordHistory, userStatus, emailVerified, mfa, backupCodes,
                   sessions, dbSessions, mfaTokens, emailTokens, resetTokens,
                   loginHistory, nextId, frame>>

\* SetPassword called on its own (operator / setup).
Set_GetCred(p, u, password, salt) ==
    /\ CanStart(p)
    /\ LET f == [EmptyFrame EXCEPT !.op = "SetPassword", !.uid = u, !.password = password,
                                   !.cred0 = cred[u], !.history0 = passwordHistory[u]]
       IN  IF PasswordTooWeak(password)
           THEN /\ frame' = [frame EXCEPT ![p] = f]
                /\ Finish(p, "PasswordTooWeak")
           ELSE /\ frame' = [frame EXCEPT ![p] =
                                [f EXCEPT !.hash = hashPassword(password, salt),
                                          !.existing = cred[u]]]
                /\ pc' = [pc EXCEPT ![p] = "Set_Write"]
                /\ UNCHANGED ret
    /\ UNCHANGED <<now, store, loginHistory, auditTrail, nextId, hist>>

\* UpdateCredential(existing) or CreateCredential; its result is returned.
Set_Write(p) ==
    /\ pc[p] = "Set_Write"
    /\ cred' = [cred EXCEPT ![frame[p].uid] =
                   IF frame[p].existing.exists
                   THEN [frame[p].existing EXCEPT !.hash = frame[p].hash,
                                                  !.mustChange = TRUE]
                   ELSE [NoCred EXCEPT !.exists = TRUE, !.hash = frame[p].hash,
                                       !.mustChange = TRUE]]
    /\ hist' = [hist EXCEPT !.overwritten = @ \cup Overwritten(frame[p].existing)]
    /\ Finish(p, "OK")
    /\ UNCHANGED <<now, passwordHistory, userStatus, emailVerified, mfa, backupCodes,
                   sessions, dbSessions, mfaTokens, emailTokens, resetTokens,
                   loginHistory, auditTrail, nextId, frame>>

\* The passwords a caller presents.
PasswordInputs == {GoodPassword, NewPassword, ShortPassword}

ChangePasswordStep(p) ==
    \/ \E currentPass \in PasswordInputs, newPass \in PasswordInputs :
          Change_GetCred(p, "u1", currentPass, newPass)
    \/ Change_Verify(p)
    \/ \E salt \in Salts : Change_CheckHistory(p, salt)
    \/ Change_AddHistory(p)
    \/ Change_Update(p)

SetPasswordStep(p) ==
    \/ \E password \in PasswordInputs, salt \in Salts : Set_GetCred(p, "u1", password, salt)
    \/ Set_Write(p)

\* ---------------------------------------------------------------- sessions
\* RefreshSession: sessionStore.Get.
Refresh_GetUnchecked(p, sessionID) ==
    /\ CanStart(p)
    /\ frame' = [frame EXCEPT ![p] = [EmptyFrame EXCEPT !.op = "RefreshSession",
                                                        !.sid = sessionID]]
    /\ pc' = [pc EXCEPT ![p] = "Refresh_Refresh"]
    /\ UNCHANGED <<now, store, loginHistory, auditTrail, nextId, hist, ret>>
Refresh_Get(p, sessionID) ==
    /\ CanStart(p)
    /\ LET f == [EmptyFrame EXCEPT !.op = "RefreshSession", !.sid = sessionID]
           found == GetSession(sessionID)
       IN  IF found = {}
           THEN /\ frame' = [frame EXCEPT ![p] = f]
                /\ Finish(p, "InvalidSession")
           ELSE /\ frame' = [frame EXCEPT ![p] =
                                [f EXCEPT !.uid = (CHOOSE x \in found : TRUE).user]]
                /\ pc' = [pc EXCEPT ![p] = "Refresh_Refresh"]
                /\ UNCHANGED ret
    /\ UNCHANGED <<now, store, loginHistory, auditTrail, nextId, hist>>

\* RefreshSession: sessionStore.Refresh with the new expiry; the session is
\* returned.
Refresh_Refresh(p) ==
    /\ pc[p] = "Refresh_Refresh"
    /\ sessions' = Refresh(sessions, frame[p].sid, now + SessionTTL)
    /\ frame' = [frame EXCEPT ![p].made =
                    IF GetSession(frame[p].sid) = {} THEN "none" ELSE "refresh"]
    /\ Finish(p, "Session")
    /\ UNCHANGED <<now, passwordHistory, userStatus, emailVerified, cred, mfa, backupCodes, dbSessions,
                   mfaTokens, emailTokens, resetTokens, loginHistory, auditTrail,
                   nextId, hist>>

\* Logout: sessionStore.Get; a missing session is already logged out.
Logout_GetUnchecked(p, sessionID) ==
    /\ CanStart(p)
    /\ frame' = [frame EXCEPT ![p] = [EmptyFrame EXCEPT !.op = "Logout", !.sid = sessionID]]
    /\ pc' = [pc EXCEPT ![p] = "Logout_Delete"]
    /\ UNCHANGED <<now, store, loginHistory, auditTrail, nextId, hist, ret>>
Logout_Get(p, sessionID) ==
    /\ CanStart(p)
    /\ LET f == [EmptyFrame EXCEPT !.op = "Logout", !.sid = sessionID]
           found == GetSession(sessionID)
       IN  IF found = {}
           THEN /\ frame' = [frame EXCEPT ![p] = f]
                /\ Finish(p, "OK")
           ELSE /\ frame' = [frame EXCEPT ![p] =
                                [f EXCEPT !.uid = (CHOOSE x \in found : TRUE).user,
                                          !.before = {sessionID}]]
                /\ pc' = [pc EXCEPT ![p] = "Logout_Delete"]
                /\ UNCHANGED ret
    /\ UNCHANGED <<now, store, loginHistory, auditTrail, nextId, hist>>

\* Logout: sessionStore.Delete.
Logout_DeleteSkipped(p) ==
    /\ pc[p] = "Logout_Delete"
    /\ pc' = [pc EXCEPT ![p] = "Logout_Revoke"]
    /\ UNCHANGED <<now, store, loginHistory, auditTrail, nextId, frame, ret, hist>>
Logout_Delete(p) ==
    /\ pc[p] = "Logout_Delete"
    /\ sessions' = DeleteSession(sessions, frame[p].sid)
    /\ hist' = [hist EXCEPT !.deleted = @ \cup {frame[p].sid}]
    /\ pc' = [pc EXCEPT ![p] = "Logout_Revoke"]
    /\ UNCHANGED <<now, passwordHistory, userStatus, emailVerified, cred, mfa, backupCodes, dbSessions,
                   mfaTokens, emailTokens, resetTokens, loginHistory, auditTrail,
                   nextId, frame, ret>>

\* Logout: repo.RevokeSession and the session_revoke audit row.
Logout_Revoke(p) ==
    /\ pc[p] = "Logout_Revoke"
    /\ dbSessions' = RevokeSession(dbSessions, frame[p].sid)
    /\ auditTrail' = [auditTrail EXCEPT ![p] = Append(@, AuditRow(frame[p].uid, "session_revoke"))]
    /\ Finish(p, "OK")
    /\ UNCHANGED <<now, passwordHistory, userStatus, emailVerified, cred, mfa, backupCodes, sessions,
                   mfaTokens, emailTokens, resetTokens, loginHistory, nextId, frame,
                   hist>>

\* LogoutAll called on its own: sessionStore.DeleteAllUserSessions.
LogoutAll_Delete(p, u) ==
    /\ CanStart(p)
    /\ frame' = [frame EXCEPT ![p] = [EmptyFrame EXCEPT !.op = "LogoutAll", !.uid = u,
                                                        !.before = IssuedTo(u)]]
    /\ sessions' = DeleteAllUserSessions(sessions, u)
    /\ hist' = [hist EXCEPT !.deleted = @ \cup {x.id : x \in {y \in sessions : y.user = u}}]
    /\ pc' = [pc EXCEPT ![p] = "LogoutAll_RevokeAll"]
    /\ UNCHANGED <<now, passwordHistory, userStatus, emailVerified, cred, mfa, backupCodes, dbSessions,
                   mfaTokens, emailTokens, resetTokens, loginHistory, auditTrail,
                   nextId, ret>>

LogoutAll_RevokeAllSkipped(p) ==
    /\ pc[p] = "LogoutAll_RevokeAll"
    /\ Finish(p, "OK")
    /\ UNCHANGED <<now, store, loginHistory, auditTrail, nextId, frame, hist>>
LogoutAll_RevokeAll(p) ==
    /\ pc[p] = "LogoutAll_RevokeAll"
    /\ LogoutAll_Revoke(p, "OK")

\* UpdateUserStatus: IsValid, the lookup of the old status for the audit row,
\* repo.UpdateUserStatus.
UserStatusIsValid(status) ==
    status \in {"active", "suspended", "locked", "pending_verification", "deactivated"}

RevokesSessionsWrong(status) == status = "locked"
RevokesSessions(status) == status = "locked" \/ status = "suspended"

\* the status_change audit row; return nil
StatusAudit(p) ==
    /\ auditTrail' = [auditTrail EXCEPT ![p] = Append(@, AuditRow("admin", "status_change"))]
    /\ Finish(p, "OK")

UpdateStatus_Write(p, u, status) ==
    /\ CanStart(p)
    /\ LET f == [EmptyFrame EXCEPT !.op = "UpdateUserStatus", !.uid = u,
                                   !.status = status, !.before = IssuedTo(u)]
       IN  /\ frame' = [frame EXCEPT ![p] = f]
           /\ IF ~UserStatusIsValid(status)
              THEN /\ Finish(p, "invalid status")
                   /\ UNCHANGED <<userStatus, auditTrail>>
              ELSE /\ userStatus' = [userStatus EXCEPT ![u] = status]
                   /\ IF RevokesSessions(status)
                      THEN /\ pc' = [pc EXCEPT ![p] = "UpdateStatus_DeleteSessions"]
                           /\ UNCHANGED <<ret, auditTrail>>
                      ELSE StatusAudit(p)
    /\ UNCHANGED <<now, passwordHistory, emailVerified, cred, mfa, backupCodes, sessions, dbSessions,
                   mfaTokens, emailTokens, resetTokens, loginHistory, nextId, hist>>

\* UpdateUserStatus: sessionStore.DeleteAllUserSessions.
UpdateStatus_DeleteSessions(p) ==
    /\ pc[p] = "UpdateStatus_DeleteSessions"
    /\ LogoutAll_DeleteSessions(p, "UpdateStatus_RevokeSessions")

\* UpdateUserStatus: repo.RevokeAllUserSessions, the audit row.
UpdateStatus_RevokeSessions(p) ==
    /\ pc[p] = "UpdateStatus_RevokeSessions"
    /\ dbSessions' = RevokeAllUserSessions(dbSessions, frame[p].uid)
    /\ StatusAudit(p)
    /\ UNCHANGED <<now, passwordHistory, userStatus, emailVerified, cred, mfa, backupCodes, sessions,
                   mfaTokens, emailTokens, resetTokens, loginHistory, nextId, frame,
                   hist>>

\* ----------------------------------------------------------- UnlockAccount
\* AuthRepository.UnlockAccount: lock-until is cleared.
UnlockAccountWrong(uc) == uc
UnlockAccount(uc) == [uc EXCEPT !.lockedUntil = Nil]

\* UnlockAccount: repo.UnlockAccount and the account_unlock audit row.
Unlock_UnlockUnaudited(p, u) ==
    /\ CanStart(p)
    /\ nextId.unlock < MaxUnlocks
    /\ frame' = [frame EXCEPT ![p] = [EmptyFrame EXCEPT !.op = "UnlockAccount", !.uid = u,
                                                        !.cred0 = cred[u]]]
    /\ cred' = [cred EXCEPT ![u] = UnlockAccount(@)]
    /\ nextId' = [nextId EXCEPT !.unlock = @ + 1]
    /\ hist' = [hist EXCEPT !.lockAt = Nil]
    /\ Finish(p, "OK")
    /\ UNCHANGED <<now, passwordHistory, userStatus, emailVerified, mfa, backupCodes, sessions,
                   dbSessions, mfaTokens, emailTokens, resetTokens, loginHistory,
                   auditTrail>>
Unlock_Unlock(p, u) ==
    /\ CanStart(p)
    /\ nextId.unlock < MaxUnlocks
    /\ frame' = [frame EXCEPT ![p] = [EmptyFrame EXCEPT !.op = "UnlockAccount", !.uid = u,
                                                        !.cred0 = cred[u]]]
    /\ cred' = [cred EXCEPT ![u] = UnlockAccount(@)]
    /\ auditTrail' = [auditTrail EXCEPT ![p] = Append(@, AuditRow("admin", "account_unlock"))]
    /\ nextId' = [nextId EXCEPT !.unlock = @ + 1]
    /\ hist' = [hist EXCEPT !.lockAt = Nil]
    /\ Finish(p, "OK")
    /\ UNCHANGED <<now, passwordHistory, userStatus, emailVerified, mfa, backupCodes, sessions,
                   dbSessions, mfaTokens, emailTokens, resetTokens, loginHistory>>

UnlockAccountStep(p) == Unlock_Unlock(p, "u1")

\* Session ids are uuids: a caller presents one that createSession has made
\* for the account, or one that is never made.
NoSuchSession == MaxSessions + 1
SessionInputs == (0..(nextId.session - 1)) \cup {NoSuchSession}

RefreshSessionStep(p) ==
    \/ \E sessionID \in SessionInputs : Refresh_Get(p, sessionID)
    \/ Refresh_Refresh(p)

LogoutStep(p) ==
    \/ \E sessionID \in SessionInputs : Logout_Get(p, sessionID)
    \/ Logout_Delete(p)
    \/ Logout_Revoke(p)

LogoutAllStep(p) ==
    \/ LogoutAll_Delete(p, "u1")
    \/ LogoutAll_RevokeAll(p)

UpdateUserStatusStep(p) ==
    \/ \E status \in {"active", "suspended", "locked", "banned"} :
          UpdateStatus_Write(p, "u1", status)
    \/ UpdateStatus_DeleteSessions(p)
    \/ UpdateStatus_RevokeSessions(p)

\* --------------------------------------------------------------- MFA setup
\* AuthRepository, on the user_mfa_totp row of a user (one per user).
UpdateMFA(row) == row
EnableMFA(row) == IF row.exists THEN [row EXCEPT !.enabled = TRUE] ELSE row
DisableMFA(row) == IF row.exists THEN [row EXCEPT !.enabled = FALSE] ELSE row

\* SetupTOTP: GetMFAByUserID, the already-enabled test, totp.Generate.
Setup_GetMFA(p, u) ==
    /\ CanStart(p)
    /\ nextId.secret < MaxSecrets
    /\ LET f == [EmptyFrame EXCEPT !.op = "SetupTOTP", !.uid = u, !.existingMFA = mfa[u]]
       IN  IF mfa[u].exists /\ mfa[u].enabled
           THEN /\ frame' = [frame EXCEPT ![p] = f]
                /\ Finish(p, "MFAAlreadyEnabled")
                /\ UNCHANGED nextId
           ELSE /\ frame' = [frame EXCEPT ![p] = [f EXCEPT !.secret = nextId.secret + 1]]
                /\ nextId' = [nextId EXCEPT !.secret = @ + 1]
                /\ pc' = [pc EXCEPT ![p] = "Setup_Write"]
                /\ UNCHANGED ret
    /\ UNCHANGED <<now, store, loginHistory, auditTrail, hist>>

\* SetupTOTP: encryptTOTPSecret; UpdateMFA of the record read before, with
\* the new secret and IsEnabled false, or CreateMFA when none was read.
Setup_Write(p) ==
    /\ pc[p] = "Setup_Write"
    /\ LET u == frame[p].uid
           encryptedSecret == encryptTOTPSecret(frame[p].secret, frame[p].secret)
       IN  IF frame[p].existingMFA.exists
           THEN /\ mfa' = [mfa EXCEPT ![u] =
                              UpdateMFA([frame[p].existingMFA EXCEPT
                                            !.secret = encryptedSecret,
                                            !.enabled = FALSE])]
                /\ Finish(p, "Secret")
           ELSE IF mfa[u].exists
           THEN /\ Finish(p, "failed to create MFA")
                /\ UNCHANGED mfa
           ELSE /\ mfa' = [mfa EXCEPT ![u] = [exists |-> TRUE, secret |-> encryptedSecret,
                                              enabled |-> FALSE]]
                /\ Finish(p, "Secret")
    /\ UNCHANGED <<now, passwordHistory, userStatus, emailVerified, cred, backupCodes, sessions,
                   dbSessions, mfaTokens, emailTokens, resetTokens, loginHistory,
                   auditTrail, nextId, frame, hist>>

\* ConfirmTOTP: GetMFAByUserID, the already-enabled test, decryptTOTPSecret,
\* totp.Validate.
Confirm_GetMFA(p, u, code) ==
    /\ CanStart(p)
    /\ BatchLeft
    /\ frame' = [frame EXCEPT ![p] = [EmptyFrame EXCEPT !.op = "ConfirmTOTP", !.uid = u,
                                                        !.code = code]]
    /\ hist' = [hist EXCEPT !.presented = @ \cup {code}]
    /\ IF ~mfa[u].exists
       THEN Finish(p, "MFA not set up")
       ELSE IF mfa[u].enabled
       THEN Finish(p, "MFAAlreadyEnabled")
       ELSE IF ~totpValidate(code, decryptTOTPSecret(mfa[u].secret), now)
       THEN Finish(p, "InvalidMFACode")
       ELSE /\ pc' = [pc EXCEPT ![p] = "Confirm_Enable"]
            /\ UNCHANGED ret
    /\ UNCHANGED <<now, store, loginHistory, auditTrail, nextId>>

\* ConfirmTOTP: repo.EnableMFA.
Confirm_Enable(p) ==
    /\ pc[p] = "Confirm_Enable"
    /\ mfa' = [mfa EXCEPT ![frame[p].uid] = EnableMFA(@)]
    /\ pc' = [pc EXCEPT ![p] = "Confirm_BackupCodes"]
    /\ UNCHANGED <<now, passwordHistory, userStatus, emailVerified, cred, backupCodes, sessions,
                   dbSessions, mfaTokens, emailTokens, resetTokens, loginHistory,
                   auditTrail, nextId, frame, ret, hist>>

\* ConfirmTOTP: generateBackupCodes (CreateBackupCodes) and the mfa_enable
\* audit row.  The codes stay in a local of which the audit row records the
\* length; the function returns nil, and nothing else.
Confirm_BackupCodes(p) ==
    /\ pc[p] = "Confirm_BackupCodes"
    /\ backupCodes' = CreateBackupCodes(backupCodes,
                                         generateBackupCodes(frame[p].uid, nextId.batch + 1))
    /\ nextId' = [nextId EXCEPT !.batch = @ + 1]
    /\ hist' = [hist EXCEPT !.generated = @ \cup BatchCodes(nextId.batch + 1)]
    /\ auditTrail' = [auditTrail EXCEPT ![p] = Append(@, AuditRow(frame[p].uid, "mfa_enable"))]
    /\ Finish(p, "OK")
    /\ UNCHANGED <<now, passwordHistory, userStatus, emailVerified, cred, mfa, sessions, dbSessions,
                   mfaTokens, emailTokens, resetTokens, loginHistory, frame>>

\* DisableTOTP: GetMFAByUserID, the enabled test, decryptTOTPSecret,
\* totp.Validate.
Disable_GetMFA(p, u, code) ==
    /\ CanStart(p)
    /\ frame' = [frame EXCEPT ![p] = [EmptyFrame EXCEPT !.op = "DisableTOTP", !.uid = u,
                                                        !.code = code]]
    /\ IF ~mfa[u].exists \/ ~mfa[u].enabled
       THEN Finish(p, "MFANotEnabled")
       ELSE IF ~totpValidate(code, decryptTOTPSecret(mfa[u].secret), now)
       THEN Finish(p, "InvalidMFACode")
       ELSE /\ pc' = [pc EXCEPT ![p] = "Disable_Disable"]
            /\ UNCHANGED ret
    /\ UNCHANGED <<now, store, loginHistory, auditTrail, nextId, hist>>

\* DisableTOTP: repo.DisableMFA.
Disable_Disable(p) ==
    /\ pc[p] = "Disable_Disable"
    /\ mfa' = [mfa EXCEPT ![frame[p].uid] = DisableMFA(@)]
    /\ pc' = [pc EXCEPT ![p] = "Disable_DeleteCodes"]
    /\ UNCHANGED <<now, passwordHistory, userStatus, emailVerified, cred, backupCodes, sessions,
                   dbSessions, mfaTokens, emailTokens, resetTokens, loginHistory,
                   auditTrail, nextId, frame, ret, hist>>

\* DisableTOTP: repo.DeleteBackupCodes and the mfa_disable audit row.
Disable_DeleteCodesSkipped(p) ==
    /\ pc[p] = "Disable_DeleteCodes"
    /\ auditTrail' = [auditTrail EXCEPT ![p] = Append(@, AuditRow(frame[p].uid, "mfa_disable"))]
    /\ Finish(p, "OK")
    /\ UNCHANGED <<now, store, loginHistory, nextId, frame, hist>>
Disable_DeleteCodes(p) ==
    /\ pc[p] = "Disable_DeleteCodes"
    /\ backupCodes' = DeleteBackupCodes(backupCodes, frame[p].uid)
    /\ auditTrail' = [auditTrail EXCEPT ![p] = Append(@, AuditRow(frame[p].uid, "mfa_disable"))]
    /\ Finish(p, "OK")
    /\ UNCHANGED <<now, passwordHistory, userStatus, emailVerified, cred, mfa, sessions, dbSessions,
                   mfaTokens, emailTokens, resetTokens, loginHistory, nextId, frame,
                   hist>>

\* GenerateBackupCodes: GetMFAByUserID and the enabled test.
Regen_GetMFA(p, u) ==
    /\ CanStart(p)
    /\ BatchLeft
    /\ frame' = [frame EXCEPT ![p] = [EmptyFrame EXCEPT !.op = "GenerateBackupCodes",
                                                        !.uid = u]]
    /\ IF ~mfa[u].exists \/ ~mfa[u].enabled
       THEN Finish(p, "MFANotEnabled")
       ELSE /\ pc' = [pc EXCEPT ![p] = "Regen_Delete"]
            /\ UNCHANGED ret
    /\ UNCHANGED <<now, store, loginHistory, auditTrail, nextId, hist>>

\* GenerateBackupCodes: repo.DeleteBackupCodes.
Regen_DeleteSkipped(p) ==
    /\ pc[p] = "Regen_Delete"
    /\ pc' = [pc EXCEPT ![p] = "Regen_Create"]
    /\ UNCHANGED <<now, store, loginHistory, auditTrail, nextId, frame, ret, hist>>
Regen_Delete(p) ==
    /\ pc[p] = "Regen_Delete"
    /\ backupCodes' = DeleteBackupCodes(backupCodes, frame[p].uid)
    /\ pc' = [pc EXCEPT ![p] = "Regen_Create"]
    /\ UNCHANGED <<now, passwordHistory, userStatus, emailVerified, cred, mfa, sessions, dbSessions,
                   mfaTokens, emailTokens, resetTokens, loginHistory, auditTrail,
                   nextId, frame, ret, hist>>

\* GenerateBackupCodes: generateBackupCodes (CreateBackupCodes) and the
\* mfa_backup_regenerate audit row; the codes are returned.
Regen_Create(p) ==
    /\ pc[p] = "Regen_Create"
    /\ backupCodes' = CreateBackupCodes(backupCodes,
                                         generateBackupCodes(frame[p].uid, nextId.batch + 1))
    /\ nextId' = [nextId EXCEPT !.batch = @ + 1]
    /\ hist' = [hist EXCEPT !.generated = @ \cup BatchCodes(nextId.batch + 1),
                            !.retired = @ \cup hist.generated]
    /\ frame' = [frame EXCEPT ![p].codes = BatchCodes(nextId.batch + 1)]
    /\ auditTrail' = [auditTrail EXCEPT ![p] =
                         Append(@, AuditRow(frame[p].uid, "mfa_backup_regenerate"))]
    /\ Finish(p, "Codes")
    /\ UNCHANGED <<now, passwordHistory, userStatus, emailVerified, cred, mfa, sessions, dbSessions,
                   mfaTokens, emailTokens, resetTokens, loginHistory>>

GenerateBackupCodesStep(p) ==
    \/ Regen_GetMFA(p, "u1")
    \/ Regen_Delete(p)
    \/ Regen_Create(p)

\* The codes a caller can present: what an authenticator shows now for a
\* secret that SetupTOTP returned, or a code of no secret.
SetupCodeInputs == {TOTP(k, now) : k \in 1..nextId.secret} \cup {BogusCode}

SetupTOTPStep(p) ==
    \/ Setup_GetMFA(p, "u1")
    \/ Setup_Write(p)

ConfirmTOTPStep(p) ==
    \/ \E code \in SetupCodeInputs : Confirm_GetMFA(p, "u1", code)
    \/ Confirm_Enable(p)
    \/ Confirm_BackupCodes(p)

DisableTOTPStep(p) ==
    \/ \E code \in SetupCodeInputs : Disable_GetMFA(p, "u1", code)
    \/ Disable_Disable(p)
    \/ Disable_DeleteCodes(p)

\* ----------------------------------------------------------- initial state
NoIds == [session |-> 0, mfaToken |-> 0, emailToken |-> 0, resetToken |-> 0,
          secret |-> 0, batch |-> 0, unlock |-> 0]
NoHist == [streak |-> 0, lockStreak |-> 0, lockAt |-> Nil, minted |-> {}, issued |-> {},
           emailIssued |-> {}, resetIssued |-> {}, emailTried |-> {}, resetTried |-> {},
           resetWrites |-> {}, deleted |-> {}, presented |-> {}, generated |-> {},
           retired |-> {}, changed |-> <<>>, overwritten |-> {}]

InitProcs ==
    /\ pc = [p \in Procs |-> "idle"]
    /\ frame = [p \in Procs |-> EmptyFrame]
    /\ ret = [p \in Procs |-> "none"]
    /\ now = 0
    /\ loginHistory = [p \in Procs |-> <<>>]
    /\ auditTrail = [p \in Procs |-> <<>>]

\* MFA of an account that never set it up, and of one that confirmed TOTP
\* with secret 1.
EnabledMFA == [exists |-> TRUE, secret |-> encryptTOTPSecret(1, 1), enabled |-> TRUE]

\* One verified, active account with a password, never attacked, with or
\* without MFA.
InitAccount ==
    /\ InitProcs
    /\ userStatus = [u \in Users |-> "active"]
    /\ emailVerified = [u \in Users |-> TRUE]
    /\ cred = [u \in Users |-> [NoCred EXCEPT !.exists = TRUE,
                                              !.hash = hashPassword(GoodPassword, 1)]]
    /\ \/ /\ mfa = [u \in Users |-> NoMFA]
          /\ backupCodes = <<>>
       \/ /\ mfa = [u \in Users |-> EnabledMFA]
          /\ backupCodes = GeneratedBackupCodes
    /\ sessions = {}
    /\ dbSessions = {}
    /\ mfaTokens = {}
    /\ emailTokens = {}
    /\ resetTokens = {}
    /\ passwordHistory = [u \in Users |-> <<>>]
    /\ nextId = NoIds
    /\ hist = NoHist

\* Requests are served concurrently.
NextLockout == Tick \/ \E p \in Procs : LoginStep(p) \/ Return(p)

SpecLockout == InitAccount /\ [][NextLockout]_vars

\* One request at a time: a single process serves them.
NextLockoutSeq == Tick \/ LoginStep("p1") \/ Return("p1")

SpecLockoutSeq == InitAccount /\ [][NextLockoutSeq]_vars

\* Logins that present the account's email and password.
LoginGoodStep(p) ==
    \/ Login_GetUser(p, EmailOf("u1"), GoodPassword)
    \/ Login_GetCred(p)
    \/ Login_Verify(p)
    \/ Login_Reset(p)
    \/ \E lookupOK \in BOOLEAN : Login_GetMFA(p, lookupOK)
    \/ Login_StoreMFAToken(p)
    \/ Login_SessionCreate(p)
    \/ Login_SessionMirror(p)

\* Requests are served concurrently; every Login presents the right password.
NextMFA ==
    \/ Tick
    \/ \E p \in Procs :
          LoginGoodStep(p) \/ VerifyMFAStep(p) \/ VerifyBackupCodeStep(p) \/ Return(p)

SpecMFA == InitAccount /\ [][NextMFA]_vars

\* One request at a time, any password.

NextMFASeq ==
    \/ Tick
    \/ LoginStep("p1")
    \/ VerifyMFAStep("p1")
    \/ VerifyBackupCodeStep("p1")
    \/ Return("p1")

SpecMFASeq == InitAccount /\ [][NextMFASeq]_vars

\* An account as Register leaves it: pending verification, its password set
\* by SetPassword, email-verification token 0 issued at time 0.
InitRegistered ==
    /\ InitProcs
    /\ userStatus = [u \in Users |-> "pending_verification"]
    /\ emailVerified = [u \in Users |-> FALSE]
    /\ cred = [u \in Users |-> [NoCred EXCEPT !.exists = TRUE,
                                              !.hash = hashPassword(GoodPassword, 1),
                                              !.mustChange = TRUE]]
    /\ mfa = [u \in Users |-> NoMFA]
    /\ backupCodes = <<>>
    /\ sessions = {}
    /\ dbSessions = {}
    /\ mfaTokens = {}
    /\ emailTokens = {TokenRow(0, "u1", EmailTokenTTL)}
    /\ resetTokens = {}
    /\ passwordHistory = [u \in Users |-> <<>>]
    /\ nextId = [NoIds EXCEPT !.emailToken = 1]
    /\ hist = [NoHist EXCEPT !.emailIssued = {TokenRow(0, "u1", EmailTokenTTL)}]

\* Registration and reset requests, one at a time.
NextTokenSeq ==
    \/ Tick
    \/ VerifyEmailStep("p1")
    \/ ResendStep("p1")
    \/ ForgotPasswordStep("p1")
    \/ ResetPasswordStep("p1")
    \/ Return("p1")

SpecTokenSeq == InitRegistered /\ [][NextTokenSeq]_vars

\* ResetPassword calls that pass both validations, with either new password.
ResetValidStep(p) ==
    \/ \E token \in ResetTokenInputs, newPassword \in {NewPassword, OtherPassword} :
          Reset_GetToken(p, token, newPassword, newPassword)
    \/ Reset_MarkUsed(p)
    \/ \E salt \in Salts : Reset_SetPassword(p, salt)
    \/ Reset_WritePassword(p)
    \/ Reset_DeleteTokens(p)
    \/ Reset_DeleteSessions(p)
    \/ Reset_RevokeSessions(p)

\* An active account without MFA as Login and ForgotPassword leave it:
\* session 0 and password-reset token 0 issued at time 0.
InitResetIssued ==
    /\ InitProcs
    /\ userStatus = [u \in Users |-> "active"]
    /\ emailVerified = [u \in Users |-> TRUE]
    /\ cred = [u \in Users |-> [NoCred EXCEPT !.exists = TRUE,
                                              !.hash = hashPassword(GoodPassword, 1)]]
    /\ mfa = [u \in Users |-> NoMFA]
    /\ backupCodes = <<>>
    /\ sessions = {[id |-> 0, user |-> "u1", expires |-> SessionTTL]}
    /\ dbSessions = {[id |-> 0, user |-> "u1", revoked |-> FALSE]}
    /\ mfaTokens = {}
    /\ emailTokens = {}
    /\ resetTokens = {TokenRow(0, "u1", ResetTokenTTL)}
    /\ passwordHistory = [u \in Users |-> <<>>]
    /\ nextId = [NoIds EXCEPT !.resetToken = 1, !.session = 1]
    /\ hist = [NoHist EXCEPT !.resetIssued = {TokenRow(0, "u1", ResetTokenTTL)}]

\* ResetPassword and RefreshSession calls served concurrently.
NextResetRace ==
    \/ Tick
    \/ \E p \in Procs : ResetValidStep(p) \/ RefreshSessionStep(p) \/ Return(p)

SpecResetRace == InitResetIssued /\ [][NextResetRace]_vars

\* An active account without MFA, never logged in, next to a session of
\* another identity.
OtherUser == "u2"
OtherSession == [id |-> MaxSessions, user |-> OtherUser, expires |-> MaxTime + 1]

InitSessions ==
    /\ InitProcs
    /\ userStatus = [u \in Users |-> "active"]
    /\ emailVerified = [u \in Users |-> TRUE]
    /\ cred = [u \in Users |-> [NoCred EXCEPT !.exists = TRUE,
                                              !.hash = hashPassword(GoodPassword, 1)]]
    /\ mfa = [u \in Users |-> NoMFA]
    /\ backupCodes = <<>>
    /\ sessions = {OtherSession}
    /\ dbSessions = {[id |-> OtherSession.id, user |-> OtherUser, revoked |-> FALSE]}
    /\ mfaTokens = {}
    /\ emailTokens = {}
    /\ resetTokens = {}
    /\ passwordHistory = [u \in Users |-> <<>>]
    /\ nextId = NoIds
    /\ hist = NoHist

\* Logins of an account without MFA that present its email and password.
LoginSessionStep(p) ==
    \/ Login_GetUser(p, EmailOf("u1"), GoodPassword)
    \/ Login_GetCred(p)
    \/ Login_Verify(p)
    \/ Login_Reset(p)
    \/ \E lookupOK \in BOOLEAN : Login_GetMFA(p, lookupOK)
    \/ Login_SessionCreate(p)
    \/ Login_SessionMirror(p)

\* Session requests served concurrently.
NextSession ==
    \/ Tick
    \/ \E p \in Procs :
          \/ LoginSessionStep(p)
          \/ RefreshSessionStep(p)
          \/ LogoutStep(p)
          \/ LogoutAllStep(p)
          \/ UpdateUserStatusStep(p)
          \/ Return(p)

SpecSession == InitSessions /\ [][NextSession]_vars

\* Session requests served one at a time.
NextSessionSeq ==
    \/ Tick
    \/ LoginSessionStep("p1")
    \/ RefreshSessionStep("p1")
    \/ LogoutStep("p1")
    \/ LogoutAllStep("p1")
    \/ UpdateUserStatusStep("p1")
    \/ Return("p1")

SpecSessionSeq == InitSessions /\ [][NextSessionSeq]_vars

\* MFA enrolment requests served concurrently, and one at a time.
NextTOTP ==
    \/ Tick
    \/ \E p \in Procs :
          SetupTOTPStep(p) \/ ConfirmTOTPStep(p) \/ DisableTOTPStep(p) \/ Return(p)

SpecTOTP == InitSessions /\ [][NextTOTP]_vars

NextTOTPSeq ==
    \/ Tick
    \/ SetupTOTPStep("p1")
    \/ ConfirmTOTPStep("p1")
    \/ DisableTOTPStep("p1")
    \/ Return("p1")

SpecTOTPSeq == InitSessions /\ [][NextTOTPSeq]_vars

\* An active account that has confirmed TOTP with secret 1 and holds the
\* first batch of backup codes, the first of them used.
InitEnrolled ==
    /\ InitProcs
    /\ userStatus = [u \in Users |-> "active"]
    /\ emailVerified = [u \in Users |-> TRUE]
    /\ cred = [u \in Users |-> [NoCred EXCEPT !.exists = TRUE,
                                              !.hash = hashPassword(GoodPassword, 1)]]
    /\ mfa = [u \in Users |-> EnabledMFA]
    /\ backupCodes = [generateBackupCodes("u1", 1) EXCEPT ![1] = UseBackupCode(@, 0)]
    /\ sessions = {}
    /\ dbSessions = {}
    /\ mfaTokens = {}
    /\ emailTokens = {}
    /\ resetTokens = {}
    /\ passwordHistory = [u \in Users |-> <<>>]
    /\ nextId = [NoIds EXCEPT !.secret = 1, !.batch = 1]
    /\ hist = [NoHist EXCEPT !.generated = BatchCodes(1)]

\* The backup codes a client holds: the second of each batch issued.
IssuedCodeInputs == {(b - 1) * BackupCodeCount + 2 : b \in 1..nextId.batch}

VerifyIssuedCodeStep(p) ==
    \/ \E token \in TokenInputs, code \in IssuedCodeInputs :
          VerifyBackupCode_GetToken(p, token, code)
    \/ VerifyBackupCode_GetCodes(p)
    \/ VerifyBackupCode_UseCode(p)
    \/ VerifyBackupCode_DeleteToken(p)
    \/ VerifyBackupCode_SessionCreate(p)
    \/ VerifyBackupCode_SessionMirror(p)

\* Logins that present the account's email and password, the MFA lookup
\* answering.
LoginMFAStep(p) ==
    \/ Login_GetUser(p, EmailOf("u1"), GoodPassword)
    \/ Login_GetCred(p)
    \/ Login_Verify(p)
    \/ Login_Reset(p)
    \/ Login_GetMFA(p, TRUE)
    \/ Login_StoreMFAToken(p)
    \/ Login_SessionCreate(p)
    \/ Login_SessionMirror(p)

\* Regeneration, disabling and backup-code logins, one request at a time.
NextBackupSeq ==
    \/ Tick
    \/ DisableTOTPStep("p1")
    \/ GenerateBackupCodesStep("p1")
    \/ LoginMFAStep("p1")
    \/ VerifyIssuedCodeStep("p1")
    \/ Return("p1")

SpecBackupSeq == InitEnrolled /\ [][NextBackupSeq]_vars

\* An active account without MFA, with or without a credential, and
\* password-reset token 0 issued at time 0.
InitPassword ==
    /\ InitProcs
    /\ userStatus = [u \in Users |-> "active"]
    /\ emailVerified = [u \in Users |-> TRUE]
    /\ \/ cred = [u \in Users |-> [NoCred EXCEPT !.exists = TRUE,
                                                 !.hash = hashPassword(GoodPassword, 1)]]
       \/ cred = [u \in Users |-> NoCred]
    /\ passwordHistory = [u \in Users |-> <<>>]
    /\ mfa = [u \in Users |-> NoMFA]
    /\ backupCodes = <<>>
    /\ sessions = {}
    /\ dbSessions = {}
    /\ mfaTokens = {}
    /\ emailTokens = {}
    /\ resetTokens = {TokenRow(0, "u1", ResetTokenTTL)}
    /\ nextId = [NoIds EXCEPT !.resetToken = 1]
    /\ hist = [NoHist EXCEPT !.resetIssued = {TokenRow(0, "u1", ResetTokenTTL)}]

\* ResetPassword calls that present the token with one new password.
ResetNewStep(p) ==
    \/ Reset_GetToken(p, 0, NewPassword, NewPassword)
    \/ Reset_MarkUsed(p)
    \/ \E salt \in Salts : Reset_SetPassword(p, salt)
    \/ Reset_WritePassword(p)
    \/ Reset_DeleteTokens(p)
    \/ Reset_DeleteSessions(p)
    \/ Reset_RevokeSessions(p)

\* Password requests, one at a time.
NextPasswordSeq ==
    \/ Tick
    \/ ChangePasswordStep("p1")
    \/ SetPasswordStep("p1")
    \/ ResetNewStep("p1")
    \/ Return("p1")

SpecPasswordSeq == InitPassword /\ [][NextPasswordSeq]_vars

\* Verification requests and status changes by an operator, one at a time.
NextVerifySeq ==
    \/ Tick
    \/ VerifyEmailStep("p1")
    \/ ResendStep("p1")
    \/ UpdateUserStatusStep("p1")
    \/ Return("p1")

SpecVerifySeq == InitRegistered /\ [][NextVerifySeq]_vars

\* Reset requests with any passwords, one at a time, on an account that
\* holds a session.
NextResetSeq ==
    \/ Tick
    \/ ForgotPasswordStep("p1")
    \/ ResetPasswordStep("p1")
    \/ Return("p1")

SpecResetSeq == InitResetIssued /\ [][NextResetSeq]_vars

\* Requests for a new verification email and for a password reset, served
\* concurrently.
NextIssueRace ==
    \/ Tick
    \/ \E p \in Procs : ResendStep(p) \/ ForgotPasswordStep(p) \/ Return(p)

SpecIssueRace == InitRegistered /\ [][NextIssueRace]_vars

\* Logins with any password and status changes by an operator, one at a time.
NextStatusSeq ==
    \/ Tick
    \/ LoginStep("p1")
    \/ UpdateUserStatusStep("p1")
    \/ Return("p1")

SpecStatusSeq == InitAccount /\ [][NextStatusSeq]_vars

\* Logins with any password and unlocks by an operator, one at a time.
NextUnlockSeq ==
    \/ Tick
    \/ LoginStep("p1")
    \/ UnlockAccountStep("p1")
    \/ Return("p1")

SpecUnlockSeq == InitAccount /\ [][NextUnlockSeq]_vars

\* Logins with any password, MFA completions, DisableTOTP calls and status
\* changes, one at a time, on an account with MFA enabled.
NextForensicSeq ==
    \/ Tick
    \/ LoginStep("p1")
    \/ VerifyMFAStep("p1")
    \/ VerifyBackupCodeStep("p1")
    \/ DisableTOTPStep("p1")
    \/ UpdateUserStatusStep("p1")
    \/ Return("p1")

SpecForensicSeq == InitEnrolled /\ [][NextForensicSeq]_vars

\* Logins with the right password and VerifyMFA calls, one at a time, with
\* session writes that succeed or fail.
NextMirrorSeq ==
    \/ Tick
    \/ LoginGoodStep("p1")
    \/ VerifyMFAStep("p1")
    \/ Login_SessionCreateFails("p1")
    \/ Login_SessionMirrorFails("p1")
    \/ VerifyMFA_SessionCreateFails("p1")
    \/ VerifyMFA_SessionMirrorFails("p1")
    \/ Return("p1")

SpecMirrorSeq == InitAccount /\ [][NextMirrorSeq]_vars

\* No account yet.
InitEmpty ==
    /\ InitProcs
    /\ userStatus = [u \in Users |-> "none"]
    /\ emailVerified = [u \in Users |-> FALSE]
    /\ cred = [u \in Users |-> NoCred]
    /\ mfa = [u \in Users |-> NoMFA]
    /\ backupCodes = <<>>
    /\ sessions = {}
    /\ dbSessions = {}
    /\ mfaTokens = {}
    /\ emailTokens = {}
    /\ resetTokens = {}
    /\ passwordHistory = [u \in Users |-> <<>>]
    /\ nextId = NoIds
    /\ hist = NoHist

\* Register calls served concurrently.
NextRegister == Tick \/ \E p \in Procs : RegisterStep(p) \/ Return(p)

SpecRegister == InitEmpty /\ [][NextRegister]_vars

\* ------------------------------------------------------- lockout properties
Quiet == \A p \in Procs : pc[p] \in {"idle", "done"}

\* lock-until is set and in the future
LockedNow(u) == cred[u].lockedUntil # Nil /\ now < cred[u].lockedUntil

\* a Login that has returned InvalidCredentials for a wrong password
WrongPasswordDone(p) ==
    /\ pc[p] = "done"
    /\ frame[p].op = "Login"
    /\ frame[p].uid # "none"
    /\ ret[p] = "InvalidCredentials"

\* a Login that has returned after verifying the password
PasswordVerifiedDone(p) ==
    /\ pc[p] = "done"
    /\ frame[p].op = "Login"
    /\ frame[p].pwOK

\* C1: requests served one at a time, failed-attempt counter 0 at the start:
\* after fewer than LockoutThreshold consecutive wrong-password Logins the
\* account is not locked; when the LockoutThreshold-th has returned, lock-until
\* is the time of its LockAccount call plus LockoutDuration; a Login with the
\* correct password leaves the failed-attempt counter at 0.
C1_Lockout ==
    \A p \in Procs :
        /\ (Quiet /\ hist.streak < LockoutThreshold) => ~LockedNow("u1")
        /\ (WrongPasswordDone(p) /\ hist.streak = LockoutThreshold) =>
              /\ hist.lockAt # Nil
              /\ hist.lockAt <= now
              /\ cred["u1"].lockedUntil = hist.lockAt + LockoutDuration
        /\ PasswordVerifiedDone(p) => cred["u1"].failed = 0

C1_Witness ==
    \E p \in Procs :
        /\ WrongPasswordDone(p)
        /\ hist.streak = LockoutThreshold
        /\ LockedNow("u1")

\* a Login between its failed verification and its lock decision
Deciding(p) == pc[p] \in {"Login_Increment", "Login_Reread", "Login_Lock"}

\* C2: under every interleaving, once LockoutThreshold wrong-password
\* verifications have completed with no successful password verification
\* completing between them, and the Logins that made them have acted on the
\* failure, a lock has been set on the account.
C2_LockAfterThreshold ==
    (hist.streak >= LockoutThreshold /\ \A p \in Procs : ~Deciding(p)) =>
        cred["u1"].lockedUntil # Nil

\* the steps of Login that follow the lock check
PastLockCheck == {"Login_Verify", "Login_Increment", "Login_Reread", "Login_Reset",
                  "Login_GetMFA", "Login_StoreMFAToken", "Login_SessionCreate",
                  "Login_SessionMirror"}

\* C3: requests served one at a time: after LockoutThreshold consecutive
\* wrong-password Logins, while lock-until has not passed, no Login gets past
\* the lock check, whatever password it supplies: it returns AccountLocked and
\* makes no session and no MFA pending token.
C3_LockedOutAfterThreshold ==
    (hist.streak >= LockoutThreshold /\ LockedNow("u1")) =>
        \A p \in Procs :
            /\ pc[p] \notin PastLockCheck
            /\ (pc[p] = "done" /\ frame[p].op = "Login" /\ frame[p].uid # "none") =>
                  /\ ret[p] \in {"AccountLocked", "InvalidCredentials"}
                  /\ frame[p].made = "none"
                  /\ (frame[p].password = GoodPassword => ret[p] = "AccountLocked")

C3_Witness ==
    \E p \in Procs :
        /\ hist.streak >= LockoutThreshold
        /\ LockedNow("u1")
        /\ pc[p] = "done"
        /\ frame[p].password = GoodPassword
        /\ ret[p] = "AccountLocked"

\* C4: no password verification happens for an identity at a moment when its
\* lock-until is set and in the future, also when several Logins are in flight.
C4_NoVerifyWhileLocked ==
    [][\A p \in Procs :
          (pc[p] = "Login_Verify" /\ pc'[p] # "Login_Verify") =>
              ~LockedNow(frame[p].uid)]_vars

\* ----------------------------------------------------------- MFA properties
\* the account's TOTP secret and password, as set up in InitAccount
SecretOf(u) == 1
PasswordOf(u) == GoodPassword

\* a pending token minted by a Login that presented the account's password
MintedAfterPassword(token, u) ==
    \E m \in hist.minted :
        m.token = token /\ m.user = u /\ m.password = PasswordOf(u)

\* C5: every session was made either by a Login that presented the account's
\* password, or by VerifyMFA / VerifyBackupCode presenting a pending token
\* that such a Login minted for the same identity together with, respectively,
\* a TOTP code of the identity's secret or one of the identity's backup codes.
C5_SessionOnlyAfterVerification ==
    \A r \in hist.issued :
        /\ r.op \in {"Login", "VerifyMFA", "VerifyBackupCode"}
        /\ r.op = "Login" => r.password = PasswordOf(r.user)
        /\ r.op = "VerifyMFA" =>
              /\ MintedAfterPassword(r.token, r.user)
              /\ r.code.secret = SecretOf(r.user)
        /\ r.op = "VerifyBackupCode" =>
              /\ MintedAfterPassword(r.token, r.user)
              /\ r.code \in 1..BackupCodeCount
              /\ r.matched = r.code

C5_Witness ==
    /\ \E r \in hist.issued : r.op = "VerifyMFA"
    /\ \E r \in hist.issued : r.op = "VerifyBackupCode"
    /\ Quiet

\* C6: a Login that verified the password of an identity whose MFA was enabled
\* at that moment returns RequiresMFA with a fresh token, stored for the
\* identity with the MFA lifetime, and makes no session, whatever the outcome
\* of the MFA lookup.
C6_MFAEnabledNoSession ==
    \A p \in Procs :
        (pc[p] = "done" /\ frame[p].op = "Login" /\ frame[p].pwOK /\ frame[p].mfaAtVerify) =>
            /\ ret[p] = "RequiresMFA"
            /\ frame[p].made = "mfaToken"
            /\ frame[p].sid = Nil
            /\ \E m \in mfaTokens : m.token = frame[p].token /\ m.user = frame[p].uid

\* C7: at most one session is made for a pending token, and when VerifyMFA or
\* VerifyBackupCode has returned a session the record of its token is gone.
C7_PendingTokenOnce ==
    /\ \A r1, r2 \in hist.issued :
          (r1.token # Nil /\ r1.token = r2.token) => r1 = r2
    /\ \A p \in Procs :
          (pc[p] = "done" /\ frame[p].op \in {"VerifyMFA", "VerifyBackupCode"}
                /\ ret[p] = "Session") =>
              ~\E m \in mfaTokens : m.token = frame[p].token

\* a VerifyBackupCode call about to look at the codes, presenting a code of
\* the identity that has been used
PresentsUsedCode(p) ==
    /\ pc[p] = "VerifyBackupCode_GetCodes"
    /\ frame[p].code \in DOMAIN backupCodes
    /\ backupCodes[frame[p].code].usedAt # Nil

\* C8: requests served one at a time: a VerifyBackupCode that returned a
\* session was given an unused code of the identity and has set its used-at;
\* a VerifyBackupCode that presents a used code under a valid pending token
\* returns InvalidMFACode and makes no session.
C8_BackupCodeSingleUse ==
    /\ [](\A p \in Procs :
            (pc[p] = "done" /\ frame[p].op = "VerifyBackupCode" /\ ret[p] = "Session") =>
                /\ frame[p].matched = frame[p].code
                /\ backupCodes[frame[p].code].usedAt # Nil)
    /\ [][\A p \in Procs :
            PresentsUsedCode(p) =>
                /\ pc'[p] \in {"VerifyBackupCode_GetCodes", "done"}
                /\ pc'[p] = "done" =>
                      /\ ret'[p] = "InvalidMFACode"
                      /\ frame'[p].made = "none"
                      /\ sessions' = sessions]_vars

C8_Witness ==
    \E p \in Procs :
        /\ pc[p] = "done"
        /\ frame[p].op = "VerifyBackupCode"
        /\ ret[p] = "InvalidMFACode"
        /\ frame[p].code \in DOMAIN backupCodes
        /\ backupCodes[frame[p].code].usedAt # Nil
        /\ \E r \in hist.issued : r.op = "VerifyBackupCode" /\ r.code = frame[p].code

\* C9: under every interleaving a backup code authorises at most one session,
\* and a used-at that is set stays set.
C9_BackupCodeOneSession ==
    /\ [](\A r1, r2 \in hist.issued :
            (r1.op = "VerifyBackupCode" /\ r2.op = "VerifyBackupCode"
                /\ r1.matched = r2.matched) => r1 = r2)
    /\ [][\A i \in DOMAIN backupCodes :
            backupCodes[i].usedAt # Nil => backupCodes'[i].usedAt # Nil]_vars

\* --------------------------------------------------------- token properties
\* a later token of the same kind has been issued to the same user
Superseded(token, issued) ==
    \E t1, t2 \in issued : t1.token = token /\ t2.user = t1.user /\ t2.id > t1.id

ReturnedFrom(p, op) == pc[p] = "done" /\ frame[p].op = op

\* what a successful VerifyEmail / ResetPassword leaves behind
EmailVerifiedBy(p) ==
    /\ ret[p] = "OK"
    /\ emailVerified[frame[p].uid]
    /\ \E t \in emailTokens : t.token = frame[p].token /\ t.usedAt # Nil
PasswordResetBy(p) ==
    /\ ret[p] = "OK"
    /\ cred[frame[p].uid].hash.digest = Argon2(frame[p].password, cred[frame[p].uid].hash.salt)

\* C10 as stated: requests served one at a time: for every issued token
\* unexpired when it is first presented, that first VerifyEmail (ResetPassword
\* with matching, strong-enough passwords) succeeds, and every later one with
\* the same token fails with InvalidVerificationToken (InvalidResetToken,
\* leaving the credential unchanged).
C10_EveryIssuedTokenOnce ==
    \A p \in Procs :
        /\ ReturnedFrom(p, "VerifyEmail") =>
              /\ (frame[p].nth = "first" /\ frame[p].fresh) => EmailVerifiedBy(p)
              /\ frame[p].nth = "later" => ret[p] = "InvalidVerificationToken"
        /\ ReturnedFrom(p, "ResetPassword") =>
              /\ (frame[p].nth = "first" /\ frame[p].fresh) => PasswordResetBy(p)
              /\ frame[p].nth = "later" =>
                    /\ ret[p] = "InvalidResetToken"
                    /\ cred["u1"] = frame[p].cred0

\* C10 as amended: the same, for every issued token that was unexpired and
\* not superseded by a later token of its kind when it was first presented.
C10_TokenSingleUse ==
    \A p \in Procs :
        /\ ReturnedFrom(p, "VerifyEmail") =>
              /\ (frame[p].nth = "first" /\ frame[p].fresh
                     /\ ~Superseded(frame[p].token, hist.emailIssued)) => EmailVerifiedBy(p)
              /\ frame[p].nth = "later" => ret[p] = "InvalidVerificationToken"
        /\ ReturnedFrom(p, "ResetPassword") =>
              /\ (frame[p].nth = "first" /\ frame[p].fresh
                     /\ ~Superseded(frame[p].token, hist.resetIssued)) => PasswordResetBy(p)
              /\ frame[p].nth = "later" =>
                    /\ ret[p] = "InvalidResetToken"
                    /\ cred["u1"] = frame[p].cred0

C10_Witness ==
    \E p \in Procs :
        /\ ReturnedFrom(p, "ResetPassword")
        /\ frame[p].nth = "later"
        /\ frame[p].fresh
        /\ ret[p] = "InvalidResetToken"
        /\ cred["u1"].hash.digest = Argon2(NewPassword, cred["u1"].hash.salt)
        /\ \E t \in emailTokens : t.usedAt # Nil

\* C11: under any interleaving of two ResetPassword calls that present the
\* same reset token, at most one of them replaces the password hash (and
\* returns success).
C11_ResetTokenOnce ==
    \A w1, w2 \in hist.resetWrites : w1.token = w2.token => w1 = w2

\* ------------------------------------------------------- session properties
\* the fast store holds an unexpired record under the id
ValidNow(sessionID) == \E x \in sessions : x.id = sessionID /\ now < x.expires
\* the durable mirror row of the id is marked revoked
RevokedRow(sessionID) == \E x \in dbSessions : x.id = sessionID /\ x.revoked
\* p takes a step of a call of `op`
StepOf(p, op) == pc'[p] # pc[p] /\ frame'[p].op = op
\* p starts a call of `op`
StartOf(p, op) == pc[p] = "idle" /\ pc'[p] # "idle" /\ frame'[p].op = op
OthersRows(rows, u) == {x \in rows : x.user # u}

C16_ValidNeverRevoked ==
    \A x \in dbSessions : x.revoked => GetSession(x.id) = {}

\* C17: RefreshSession on a session that is absent, expired or logged out
\* returns InvalidSession and changes nothing; a session deleted by Logout or
\* LogoutAll is never valid again, also when a RefreshSession overlaps the
\* deletion.
C17_RefreshOnlyValid ==
    /\ [](\A sid \in hist.deleted : ~ValidNow(sid))
    /\ [][\A p \in Procs :
             (StartOf(p, "RefreshSession") /\ ~ValidNow(frame'[p].sid)) =>
                 /\ pc'[p] = "done"
                 /\ ret'[p] = "InvalidSession"
                 /\ UNCHANGED <<store, loginHistory, auditTrail>>]_vars

C17_Witness ==
    \E p, q \in Procs :
        /\ ReturnedFrom(p, "RefreshSession")
        /\ frame[p].made = "none"
        /\ frame[p].sid \in hist.deleted
        /\ ReturnedFrom(q, "Logout")
        /\ frame[q].sid = frame[p].sid
        /\ now < SessionTTL

\* C18: Logout on a session id that the fast store does not hold (never
\* issued, expired or already logged out) returns no error and changes
\* nothing: no deletion, no revocation, no audit row.
C18_LogoutIdempotent ==
    [][\A p \in Procs :
          (StartOf(p, "Logout") /\ ~ValidNow(frame'[p].sid)) =>
              /\ pc'[p] = "done"
              /\ ret'[p] = "OK"
              /\ UNCHANGED <<store, loginHistory, auditTrail, hist>>]_vars

C18_Witness ==
    /\ ReturnedFrom("p1", "Logout")
    /\ ret["p1"] = "OK"
    /\ frame["p1"].before = {}
    /\ frame["p1"].sid \in hist.deleted
    /\ ~RevokedRow(OtherSession.id)

\* ----------------------------------------------------- MFA setup properties
\* the secret stored in the MFAConfig of u
StoredSecret(u) == decryptTOTPSecret(mfa[u].secret)

\* C19: in every reachable state, under any interleaving of SetupTOTP and
\* ConfirmTOTP, an MFAConfig that is enabled holds a secret for which a code
\* was presented to ConfirmTOTP.
C19_EnabledOnlyConfirmed ==
    \A u \in Users :
        (mfa[u].exists /\ mfa[u].enabled) =>
            \E code \in hist.presented : code.secret = StoredSecret(u)

\* C20: under any interleaving of SetupTOTP, ConfirmTOTP and DisableTOTP, an
\* enabled MFAConfig stops being enabled only in a step of a DisableTOTP call
\* that presented a code valid for the stored secret; a DisableTOTP that
\* presents an invalid code to an enabled MFAConfig returns InvalidMFACode and
\* leaves the MFAConfig and the backup codes unchanged.
C20_DisableNeedsCode ==
    /\ [][\A u \in Users :
             (mfa[u].enabled /\ ~mfa'[u].enabled) =>
                 \E p \in Procs :
                     /\ StepOf(p, "DisableTOTP")
                     /\ frame'[p].code.secret = StoredSecret(u)]_vars
    /\ [][\A p \in Procs :
             (/\ StartOf(p, "DisableTOTP")
              /\ mfa[frame'[p].uid].enabled
              /\ ~totpValidate(frame'[p].code, StoredSecret(frame'[p].uid), now)) =>
                 /\ pc'[p] = "done"
                 /\ ret'[p] = "InvalidMFACode"
                 /\ UNCHANGED <<mfa, backupCodes>>]_vars

\* --------------------------------------------------- backup-code properties
\* the backup-code rows of u
CodesOf(u) == {i \in DOMAIN backupCodes : backupCodes[i].user = u}

StoredCodes(u) ==
    {i \in CodesOf(u) :
        backupCodes[i].codeHash = hashBackupCodeWithSalt(i, backupCodes[i].salt)}

\* C22: when ConfirmTOTP has returned success, the codes handed to its caller
\* are the BackupCodeCount codes whose salted hashes were stored.
C22_ConfirmReturnsCodes ==
    \A p \in Procs :
        (ReturnedFrom(p, "ConfirmTOTP") /\ ret[p] = "OK") =>
            /\ frame[p].codes = StoredCodes(frame[p].uid)
            /\ Cardinality(frame[p].codes) = BackupCodeCount

\* VerifyBackupCode would match the code against an unused row of u
Accepted(code, u) == MatchBackupCode(code, GetUnusedBackupCodes(u)) # Nil

ChangedWindow ==
    LET w == GetPasswordHistory(hist.changed, PasswordHistoryCount)
    IN  {w[k] : k \in DOMAIN w}

\* a ChangePassword that verified the current password and found the new one
\* long enough, about to check the history
ChecksHistory(p) == pc[p] = "Change_CheckHistory"

C25_SetPasswordKeepsHistory ==
    /\ [](\A p \in Procs :
             (/\ ReturnedFrom(p, "SetPassword") \/ ReturnedFrom(p, "ResetPassword")
              /\ ret[p] = "OK"
              /\ frame[p].cred0.exists) =>
                 \E k \in DOMAIN passwordHistory[frame[p].uid] :
                     passwordHistory[frame[p].uid][k] = frame[p].cred0.hash)
    /\ [][\A p \in Procs :
             (ChecksHistory(p) /\ frame[p].password \in hist.overwritten) =>
                 /\ pc'[p] \in {"Change_CheckHistory", "done"}
                 /\ pc'[p] = "done" => ret'[p] = "PasswordReused"]_vars

\* what ChangePassword is to return, from the credential and the history at
\* the start of the call
ChangeOutcome(c, history, currentPass, newPass) ==
    IF ~c.exists THEN "CredentialsNotFound"
    ELSE IF ~verifyPassword(currentPass, c.hash) THEN "InvalidCredentials"
    ELSE IF PasswordTooWeak(newPass) THEN "PasswordTooWeak"
    ELSE IF PasswordReused(newPass, GetPasswordHistory(history, PasswordHistoryCount))
    THEN "PasswordReused"
    ELSE "OK"

C27_VerifyOnlyPending ==
    /\ [](\A p \in Procs :
             (ReturnedFrom(p, "VerifyEmail") /\ ret[p] = "OK") =>
                 emailVerified[frame[p].uid])
    /\ [][\A p \in Procs :
             (/\ StepOf(p, "VerifyEmail")
              /\ frame'[p].uid \in Users
              /\ userStatus[frame'[p].uid] \in {"suspended", "locked", "deactivated"}) =>
                 userStatus'[frame'[p].uid] # "active"]_vars

\* the one response of the forgot-password endpoint that reports success
ForgotPasswordSuccess == ForgotPasswordResponse("OK")

\* C28: every caller of ForgotPassword gets the same success response,
\* whether the email presented is that of an account or not; for a known
\* email the call leaves a reset token row of the identity, and for an
\* unknown one it returns in its first step and changes nothing.
C28_ForgotPasswordSameResponse ==
    /\ [](\A p \in Procs :
             ReturnedFrom(p, "ForgotPassword") =>
                 /\ ForgotPasswordResponse(ret[p]) = ForgotPasswordSuccess
                 /\ frame[p].email \in KnownEmails =>
                       \E t \in resetTokens :
                           t.token = frame[p].token /\ t.user = UserOfEmail(frame[p].email))
    /\ [][\A p \in Procs :
             (StartOf(p, "ForgotPassword") /\ frame'[p].email \notin KnownEmails) =>
                 /\ pc'[p] = "done"
                 /\ UNCHANGED <<store, loginHistory, auditTrail, nextId>>]_vars

\* an unknown email answered after a token was made for the known one
C28_Witness ==
    /\ ReturnedFrom("p1", "ForgotPassword")
    /\ frame["p1"].email = UnknownEmail
    /\ ForgotPasswordResponse(ret["p1"]).status = 200
    /\ \E t \in resetTokens : t.token = 1

\* the unused rows of u in a token table
Outstanding(rows, u) == {t \in rows : t.user = u /\ t.usedAt = Nil}

\* the rows of tokens issued before a later token of the same user
Stale(rows, issued) ==
    {t \in rows : \E t1, t2 \in issued :
                     t1.token = t.token /\ t2.user = t1.user /\ t2.id > t1.id}

\* C29: in every reachable state, also with ResendVerificationEmail calls and
\* ForgotPassword calls in flight together, an identity has at most one
\* unused email-verification token and at most one unused password-reset
\* token, and no row is left of a token issued before a newer one of its kind.
C29_OneOutstandingToken ==
    /\ \A u \in Users :
          /\ Cardinality(Outstanding(emailTokens, u)) <= 1
          /\ Cardinality(Outstanding(resetTokens, u)) <= 1
    /\ Stale(emailTokens, hist.emailIssued) = {}
    /\ Stale(resetTokens, hist.resetIssued) = {}

\* the reset token can be redeemed: its row is there, unexpired and unused
Redeemable(token) ==
    \E t \in resetTokens : t.token = token /\ ~TokenIsExpired(t, now) /\ ~TokenIsUsed(t)

\* C30: a ResetPassword whose passwords differ returns PasswordMismatch, one
\* whose new password is too short returns PasswordTooWeak, both without
\* touching the token, the credential or the sessions; one with acceptable
\* passwords whose token is missing, expired or used returns InvalidResetToken
\* and leaves the credential and the sessions unchanged.
C30_ResetValidatesFirst ==
    [][\A p \in Procs :
          StartOf(p, "ResetPassword") =>
              LET f == frame'[p] IN
              /\ f.password # f.confirm =>
                    /\ pc'[p] = "done"
                    /\ ret'[p] = "PasswordMismatch"
                    /\ UNCHANGED store
              /\ (f.password = f.confirm /\ PasswordTooWeak(f.password)) =>
                    /\ pc'[p] = "done"
                    /\ ret'[p] = "PasswordTooWeak"
                    /\ UNCHANGED store
              /\ (f.password = f.confirm /\ ~PasswordTooWeak(f.password)
                     /\ ~Redeemable(f.token)) =>
                    /\ pc'[p] = "done"
                    /\ ret'[p] = "InvalidResetToken"
                    /\ UNCHANGED store]_vars

\* a call with a too short password has returned; the token it presented can
\* still be redeemed and the session is still there
C30_Witness ==
    /\ ReturnedFrom("p1", "ResetPassword")
    /\ ret["p1"] = "PasswordTooWeak"
    /\ Redeemable(frame["p1"].token)
    /\ GetSession(0) # {}

\* ------------------------------------------------- login failure properties
\* the steps of Login that follow the status check
PastStatusCheck == PastLockCheck \cup {"Login_GetCred", "Login_Lock", "Login_LogFail"}

\* C31: a Login for an identity whose status is not active returns
\* AccountNotActive, whatever password it supplies: the credential (counter
\* and lock-until) and every other table are unchanged, the password is not
\* verified, and no session and no MFA pending token is made; requests served
\* one at a time, no Login is past the status check while the status is not
\* active.
C31_NotActiveUntouched ==
    [][\A p \in Procs :
          /\ (StartOf(p, "Login") /\ frame'[p].email \in KnownEmails
                 /\ userStatus[UserOfEmail(frame'[p].email)] # "active") =>
                /\ pc'[p] = "done"
                /\ ret'[p] = "AccountNotActive"
                /\ UNCHANGED <<store, nextId, hist>>
                /\ ~frame'[p].pwOK
                /\ frame'[p].made = "none"
          /\ (pc'[p] \in PastStatusCheck /\ pc'[p] # pc[p]) =>
                userStatus'[frame'[p].uid] = "active"]_vars

\* a Login with the right password for a suspended identity whose counter
\* stands at 2 has returned AccountNotActive
C31_Witness ==
    /\ ReturnedFrom("p1", "Login")
    /\ ret["p1"] = "AccountNotActive"
    /\ frame["p1"].password = GoodPassword
    /\ userStatus["u1"] = "suspended"
    /\ cred["u1"].failed = 2

\* a Login that has returned after its password failed verification against
\* the credential of an active, unlocked account
WrongPasswordReturned(p) ==
    /\ ReturnedFrom(p, "Login")
    /\ frame[p].hash # NoHash
    /\ ~verifyPassword(frame[p].password, frame[p].hash)

\* a Login that has returned for an email no identity has
UnknownEmailReturned(p) == ReturnedFrom(p, "Login") /\ frame[p].email \notin KnownEmails

\* C32: a Login with an unknown email and a Login with the wrong password for
\* a known, active, unlocked account return the same error, InvalidCredentials;
\* the Login with the unknown email has appended exactly one failed
\* login_history row, without a user id, and nothing else.
C32_UnknownEmailSameError ==
    \A p \in Procs :
        /\ UnknownEmailReturned(p) =>
              /\ ret[p] = "InvalidCredentials"
              /\ Len(loginHistory[p]) = 1
              /\ ~loginHistory[p][1].success
              /\ loginHistory[p][1].user = "none"
              /\ auditTrail[p] = <<>>
        /\ WrongPasswordReturned(p) => ret[p] = "InvalidCredentials"

\* a Login with an unknown email has returned after a Login with the wrong
\* password for the account did
C32_Witness ==
    /\ UnknownEmailReturned("p1")
    /\ ret["p1"] = "InvalidCredentials"
    /\ hist.streak >= 1
    /\ cred["u1"].failed >= 1

\* a VerifyMFA or VerifyBackupCode that has returned InvalidMFACode
MFAFailed(p) ==
    /\ pc[p] = "done"
    /\ frame[p].op \in {"VerifyMFA", "VerifyBackupCode"}
    /\ ret[p] = "InvalidMFACode"

\* C33: requests served one at a time: a Login that verified the password
\* leaves the failed-attempt counter at 0 whether it returns a session or
\* RequiresMFA, and the counter stays 0 until the next wrong password,
\* whether or not VerifyMFA / VerifyBackupCode is called and whatever it
\* returns.
C33_PasswordAloneResets ==
    /\ \A p \in Procs :
          PasswordVerifiedDone(p) =>
              /\ ret[p] \in {"Session", "RequiresMFA"}
              /\ cred[frame[p].uid].failed = 0
    /\ (hist.streak = 0 /\ \A p \in Procs : pc[p] # "Login_Reset") =>
          cred["u1"].failed = 0

\* the counter stood at 2 when a Login with the right password read it; the
\* Login has returned RequiresMFA
C33_Witness ==
    /\ PasswordVerifiedDone("p1")
    /\ frame["p1"].cred0.failed = 2
    /\ ret["p1"] = "RequiresMFA"

\* after a Login that verified the password, a VerifyMFA with a wrong code has
\* returned InvalidMFACode and its pending record is still there
MFAFailedAfterLogin ==
    /\ MFAFailed("p1")
    /\ frame["p1"].op = "VerifyMFA"
    /\ hist.streak = 0
    /\ hist.minted # {}
    /\ GetMFAToken(frame["p1"].token) # {}

\* ---------------------------------------------------- MFA failure properties
MFAOps == {"VerifyMFA", "VerifyBackupCode"}

\* the code p presented passes the check of its operation now
CodeValid(p) ==
    LET u == frame[p].uid IN
    IF frame[p].op = "VerifyMFA"
    THEN mfa[u].exists /\ mfa[u].enabled
            /\ totpValidate(frame[p].code, decryptTOTPSecret(mfa[u].secret), now)
    ELSE \E i \in GetUnusedBackupCodes(u) :
            backupCodes[i].codeHash = hashBackupCodeWithSalt(frame[p].code, backupCodes[i].salt)

\* C34: a VerifyMFA or VerifyBackupCode that returns InvalidMFACode has changed
\* no table: the pending record is still there, no session is made and no
\* backup code is marked used.  A call whose token is missing or past its TTL
\* returns InvalidSession; a call whose token is present and within its TTL
\* goes on to the code check, passes it when the code is valid at that moment,
\* and then returns a session.
C34_FailedMFAKeepsPending ==
    /\ [][\A p \in Procs :
            /\ (StepOf(p, "VerifyMFA") \/ StepOf(p, "VerifyBackupCode")) =>
                  /\ (pc'[p] = "done" /\ ret'[p] = "InvalidMFACode") =>
                        /\ UNCHANGED <<store, nextId>>
                        /\ \E m \in mfaTokens' : m.token = frame'[p].token
                        /\ frame'[p].made = "none"
                  /\ pc[p] = "idle" =>
                        IF GetMFAToken(frame'[p].token) = {}
                        THEN pc'[p] = "done" /\ ret'[p] = "InvalidSession"
                                /\ UNCHANGED <<store, nextId>>
                        ELSE pc'[p] \in {"VerifyMFA_GetMFA", "VerifyBackupCode_GetCodes"}
                  /\ (pc[p] \in {"VerifyMFA_GetMFA", "VerifyBackupCode_GetCodes"}
                         /\ CodeValid(p)) =>
                        pc'[p] \in {"VerifyMFA_DeleteToken", "VerifyBackupCode_UseCode"}]_vars
    /\ [](\A p \in Procs :
            (pc[p] = "done" /\ frame[p].op \in MFAOps) =>
                /\ ret[p] \in {"InvalidSession", "MFANotEnabled", "InvalidMFACode", "Session"}
                /\ ret[p] = "Session" <=> frame[p].made = "session"
                /\ ret[p] = "InvalidMFACode" => \E m \in mfaTokens : m.token = frame[p].token)

\* a VerifyMFA with a wrong code has returned InvalidMFACode; its pending
\* record is present and within its TTL, and the session budget is not spent
C34_Witness ==
    /\ MFAFailed("p1")
    /\ frame["p1"].op = "VerifyMFA"
    /\ GetMFAToken(frame["p1"].token) # {}
    /\ sessions = {}
    /\ \A i \in DOMAIN backupCodes : backupCodes[i].usedAt = Nil

\* ---------------------------------------------------------- unlock properties
\* C35: when UnlockAccount has returned without error the credential is not
\* locked and the call has appended exactly one account_unlock audit row; a
\* Login is answered AccountLocked only when a lock was set after the last
\* unlock, so the next Login with the right password is not.
C35_UnlockClearsLock ==
    \A p \in Procs :
        /\ (ReturnedFrom(p, "UnlockAccount") /\ ret[p] = "OK") =>
              /\ ~IsLocked(cred[frame[p].uid], now)
              /\ auditTrail[p] = <<AuditRow("admin", "account_unlock")>>
              /\ loginHistory[p] = <<>>
        /\ (ReturnedFrom(p, "Login") /\ ret[p] = "AccountLocked") => hist.lockAt # Nil
        /\ (ReturnedFrom(p, "Login") /\ frame[p].email \in KnownEmails
               /\ frame[p].password = GoodPassword /\ hist.lockAt = Nil) => ret[p] \in {"Session", "RequiresMFA"}

\* UnlockAccount has returned for an account whose lock had not run out
C35_Witness ==
    /\ ReturnedFrom("p1", "UnlockAccount")
    /\ ret["p1"] = "OK"
    /\ IsLocked(frame["p1"].cred0, now)
    /\ ~IsLocked(cred["u1"], now)

\* -------------------------------------------------------- forensic properties
\* the errors of Login, VerifyMFA and VerifyBackupCode for an identified user
IdentifiedFailures == {"AccountNotActive", "CredentialsNotFound", "AccountLocked",
                       "InvalidCredentials", "MFANotEnabled", "InvalidMFACode"}

\* a Login, VerifyMFA or VerifyBackupCode that has failed for an identified user
FailedFor(p) ==
    /\ pc[p] = "done"
    /\ frame[p].op \in {"Login", "VerifyMFA", "VerifyBackupCode"}
    /\ frame[p].uid # "none"
    /\ ret[p] \in IdentifiedFailures

\* the login_history and security_audit_trail rows the request appended
Recorded(p) == Len(loginHistory[p]) + Len(auditTrail[p])

\* C36: a Login, VerifyMFA or VerifyBackupCode that fails for an identified
\* user has appended exactly one row to login_history or security_audit_trail.
C36_OneRecordPerFailure ==
    \A p \in Procs : FailedFor(p) => Recorded(p) = 1

\* C37: whenever Login or VerifyMFA has returned a session, the sessions table
\* holds a row with the session's id; a call whose fast-store write failed
\* has returned the error, and no session.
C37_SessionHasMirrorRow ==
    \A p \in Procs :
        (pc[p] = "done" /\ frame[p].op \in {"Login", "VerifyMFA"}) =>
            /\ ret[p] = "Session" =>
                  /\ \E x \in sessions : x.id = frame[p].sid
                  /\ \E x \in dbSessions : x.id = frame[p].sid
            /\ ret[p] = "failed to create session" =>
                  /\ frame[p].sid = Nil
                  /\ frame[p].made = "none"

\* C38: a session is made only for an identity whose status is active and
\* whose account is not locked at that moment, also by a VerifyMFA or
\* VerifyBackupCode that presents a pending token minted earlier.
C38_OnlyActiveGetSessions ==
    [][\A r \in hist.issued' \ hist.issued :
          /\ userStatus[r.user] = "active"
          /\ ~LockedNow(r.user)]_vars

\* the same for the status alone
OnlyActiveStatusGetSessions ==
    [][\A r \in hist.issued' \ hist.issued : userStatus[r.user] = "active"]_vars

\* the same for the lock alone
OnlyUnlockedGetSessions ==
    [][\A r \in hist.issued' \ hist.issued : ~LockedNow(r.user)]_vars

\* ------------------------------------------------------ register properties
\* C39: every users row that Register has created has a user_credentials row,
\* in every state: between the steps of a Register, with other requests
\* interleaved, and after a Register that failed.
C39_CredentialAlwaysExists ==
    \A u \in Users : userStatus[u] # "none" => cred[u].exists

\* the same once every request has returned
CredentialExistsWhenQuiet ==
    Quiet => \A u \in Users : userStatus[u] # "none" => cred[u].exists

\* --------------------------------------------------- re-arming of a lockout
\* hist.streak counts the wrong-password Logins since the last correct one
\* and hist.lockStreak is its value when the account was last locked, so the
\* difference is the number of wrong-password Logins since that lock was set:
\* a Login refused as AccountLocked never reaches verifyPassword.
WrongSinceLock == hist.streak - hist.lockStreak
Locks(p) == pc[p] = "Login_Lock" /\ pc'[p] = "Login_LogFail"

\* C40: a lockout that has expired or was cleared by UnlockAccount does not
\* re-arm after a single mistake: whenever Login locks the account, at least
\* LockoutThreshold wrong-password Logins have been made since the account
\* was last locked (or since the last correct password).
C40_NoRearmAfterOneMistake ==
    [][\A p \in Procs : Locks(p) => WrongSinceLock >= LockoutThreshold]_vars

\* The two halves of C40: the lock that Login sets over an expired lock-until,
\* and the one it sets after UnlockAccount cleared lock-until.
NoRearmAfterExpiry ==
    [][\A p \in Procs :
          (Locks(p) /\ frame[p].cred0.lockedUntil # Nil) =>
              WrongSinceLock >= LockoutThreshold]_vars
NoRearmAfterUnlock ==
    [][\A p \in Procs :
          (Locks(p) /\ frame[p].cred0.lockedUntil = Nil) =>
              WrongSinceLock >= LockoutThreshold]_vars

\* the first lock of an account is set by the LockoutThreshold-th mistake
FirstLockAtThreshold ==
    [][\A p \in Procs :
          (Locks(p) /\ hist.lockAt = Nil /\ nextId.unlock = 0) =>
              WrongSinceLock = LockoutThreshold]_vars
=============================================================================
